---------------------------- MODULE Spec2Model ----------------------------
(***************************************************************************)
(* A model of FidPromise (src/lib/fid-promise.js): the settlement state    *)
(* machine (complete), the thenable resolution procedure (getThen,         *)
(* attachTo), the deferred reaction scheduler (callNext with setTimeout)   *)
(* and the registration operations (then, success, error, always).         *)
(*                                                                         *)
(* The functions of the source are operators on a record s that holds the  *)
(* whole heap (every instance's fields, the timer queue, the closures of   *)
(* attachTo); an action of the model is one top-level call made by client  *)
(* code, or one timer firing, with every nested call it makes.             *)
(***************************************************************************)
EXTENDS Integers, Sequences, FiniteSets, TLC

(* ------------------------------ bounds --------------------------------- *)
\* thenCall records registered in one run (addCallbacks calls)
MaxThenCalls == 2
\* thenCall records registered in one run of Spec, where payloads, callbacks
\* and thenables of every kind mix
MaxMixedThenCalls == 1
\* attachTo calls in one run
MaxAttach == 2
\* instances client code constructs to pass them to when or after
MaxMembers == 2
\* when and after calls in one run
MaxAggregates == 1

(* ------------------------------ values --------------------------------- *)
\* A JavaScript value is a record [k, n]: its kind and an index.
Plain(n) == [k |-> "plain", n |-> n]            \* a value without a then property
Undefined == [k |-> "undefined", n |-> 0]
EmptyArray == [k |-> "array", n |-> 0]          \* the [] of the constructor
TypeErr == [k |-> "TypeError", n |-> 0]         \* new TypeError(err), line 173
PromiseRef(p) == [k |-> "promise", n |-> p]     \* FidPromise instance number p
Foreign(f) == [k |-> "foreign", n |-> f]        \* a thenable of other code
ThrowingThen(n) == [k |-> "throwingThen", n |-> n] \* object whose then getter throws
Exc(n) == [k |-> "exception", n |-> n]          \* a value thrown by other code
NoExc == [k |-> "none", n |-> 0]                \* no exception in flight

\* An array other than the [] of the constructor: number i of the arrays made
\* so far; its elements are arrays[i], an element never assigned is Hole.
ArrayRef(i) == [k |-> "arrayRef", n |-> i]
Hole == [k |-> "hole", n |-> 0]

\* What the then getter of ThrowingThen(n) throws.
GetterThrows(n) == [k |-> "getterError", n |-> n]

\* An object of other code whose then is a getter that gives a function at its
\* first read and something else at every later read.
ChangingThen(n) == [k |-> "changingThen", n |-> n]
ChangingObjects == {1, 2}

(* --------------------------- foreign thenables -------------------------- *)
\* One call a foreign then makes on the callbacks it was handed.
CallS(v) == [cb |-> "Resolved", val |-> v]
CallE(v) == [cb |-> "Rejected", val |-> v]

\* The behaviour of the then of Foreign(f): the calls it makes before it
\* returns (sync), what it throws at its end (NoExc: it returns), and the calls
\* it makes later, one at a time (later).
ForeignThen(f) ==
    CASE f = 1 -> [sync |-> << >>, throws |-> NoExc,
                   later |-> << CallS(Plain(1)) >>]
      [] f = 2 -> [sync |-> << CallS(Plain(1)), CallE(Plain(2)) >>, throws |-> NoExc,
                   later |-> << CallS(Plain(2)) >>]
      [] f = 3 -> [sync |-> << >>, throws |-> NoExc,
                   later |-> << CallE(Plain(2)), CallS(Plain(1)), CallE(Plain(1)) >>]
      [] f = 4 -> [sync |-> << >>, throws |-> NoExc,
                   later |-> << CallS(Foreign(1)), CallE(Plain(2)) >>]
      [] f = 5 -> [sync |-> << >>, throws |-> Exc(2),
                   later |-> << >>]
      [] f = 6 -> [sync |-> << >>, throws |-> NoExc,
                   later |-> << CallE(Foreign(1)) >>]
      [] f = 7 -> [sync |-> << CallS(Foreign(1)) >>, throws |-> Exc(3),
                   later |-> << >>]
      [] f = 8 -> [sync |-> << CallS(Plain(1)) >>, throws |-> Exc(3),
                   later |-> << >>]
      [] f = 9 -> [sync |-> << CallS(Plain(1)) >>, throws |-> NoExc,
                   later |-> << >>]
      [] OTHER -> [sync |-> << >>, throws |-> NoExc, later |-> << >>]

(* ------------------------------ callbacks ------------------------------- *)
\* A callback is a record [act, val]: what it does when it is called.
NotAFunction == [act |-> "none", val |-> Undefined]   \* undefined, null, 5, ...
Returns(v) == [act |-> "return", val |-> v]
Throws(v) == [act |-> "throw", val |-> v]
\* The two closures attachTo hands to otherThen (lines 98-106), of attachTo call a.
Forward(type, a) == [act |-> type, val |-> [k |-> "attach", n |-> a]]
\* The two closures when (lines 445-464) and after (lines 324-340) hand to the
\* then of a member: c is the number of the forEach iteration that made them.
MemberCallback(type, c) == [act |-> type, val |-> [k |-> "member", n |-> c]]

(* ------------------------------- state ---------------------------------- *)
VARIABLES
    created,        \* number of instances constructed: they are 1..created
    state,          \* state[p]: "null" (pending), "true" (fulfilled), "false" (rejected)
    data,           \* data[p]
    thenCallArray,  \* thenCallArray[p]: sequence of thenCall records
    nThenCalls,     \* thenCall objects created so far (a thenCall's id is its identity)
    timers,         \* the setTimeout(..., 0) queue, first in first out
    attached,       \* attached[a]: the closure of the a-th attachTo call
    calls,          \* the invocations of thenCall callbacks made so far, in order
    dispatched,     \* dispatched[id]: times callNext was called with thenCall id
    uncaught,       \* the exception the last step threw to its caller, or NoExc
    aggs,           \* aggs[g]: the local variables of the g-th when or after call
    members,        \* members[c]: the closure of a forEach iteration of when or after
    arrays,         \* arrays[i]: the elements of ArrayRef(i)
    waitingFor,     \* waitingFor[p]: that field of a Promise of src/fid-promise.js
    reads           \* reads[n]: times the then of ChangingThen(n) was read

vars == << created, state, data, thenCallArray, nThenCalls, timers, attached,
           calls, dispatched, uncaught, aggs, members, arrays, waitingFor,
           reads >>

\* Client code constructs one instance before the run begins, and MaxMembers
\* more where it calls when or after; every then call constructs one more, and
\* registers one thenCall.
Promises == 1 .. (1 + MaxMembers + MaxThenCalls)
Created == 1 .. created

\* The heap as one record, for the operators below.
Heap == [created |-> created, state |-> state, data |-> data,
         thenCallArray |-> thenCallArray, nThenCalls |-> nThenCalls,
         timers |-> timers, attached |-> attached, calls |-> calls,
         dispatched |-> dispatched,
         aggs |-> aggs, members |-> members, arrays |-> arrays,
         waitingFor |-> waitingFor, reads |-> reads,
         exc |-> NoExc,          \* the exception in flight
         ret |-> 0,              \* the instance the last then returned
         overflow |-> FALSE,     \* a bound of the model was exceeded
         debug |-> {},           \* the instances p with FidPromise.debug || p.debug
         sink |-> FALSE,         \* that value is a function
         ids |-> {},             \* the instances that have an id
         log |-> << >>]          \* the messages written to the function or console


(* ---------------------------- the library ------------------------------- *)
RECURSIVE complete(_, _, _, _)
RECURSIVE callNext(_, _, _)
RECURSIVE forEachCallNext(_, _, _, _)
RECURSIVE forEachCallNextReversed(_, _, _, _)
RECURSIVE attachTo(_, _, _, _)
RECURSIVE runCalls(_, _, _)
RECURSIVE runMemberCalls(_, _, _)
RECURSIVE forEachMember(_, _, _)
RECURSIVE Holes(_)

\* debugMessage with a function that throws what it is given.
debugMessageSinkThrows(s, promise, message) ==
    IF promise \in s.debug
    THEN [s EXCEPT !.ids = @ \cup {promise},
                   !.log = Append(@, [to |-> IF s.sink THEN "function" ELSE "console",
                                      promise |-> promise, message |-> message]),
                   !.exc = IF s.sink THEN Exc(1) ELSE @]
    ELSE s

\* debugMessage(promise, message) (lines 214-232): without a debug value it
\* does nothing; with one it gives the instance an id if it has none and
\* hands the message to the function or to console.log.
debugMessage(s, promise, message) ==
    IF promise \in s.debug
    THEN [s EXCEPT !.ids = @ \cup {promise},
                   !.log = Append(@, [to |-> IF s.sink THEN "function" ELSE "console",
                                      promise |-> promise, message |-> message])]
    ELSE s

\* getThen as a test for instances of the library: the then of any other
\* object is not looked at.
getThenInstancesOnly(s, target) ==
    CASE target.k = "promise" ->
            [threw |-> FALSE, ex |-> NoExc, then |-> "FidPromise.prototype.then"]
      [] OTHER ->
            [threw |-> FALSE, ex |-> NoExc, then |-> "null"]

\* getThen as a test that swallows what the getter throws.
getThenSwallows(s, target) ==
    CASE target.k = "promise" ->
            [threw |-> FALSE, ex |-> NoExc, then |-> "FidPromise.prototype.then"]
      [] target.k = "foreign" ->
            [threw |-> FALSE, ex |-> NoExc, then |-> "foreign"]
      [] target.k = "changingThen" /\ s.reads[target.n] = 0 ->
            [threw |-> FALSE, ex |-> NoExc, then |-> "thenAtFirstRead"]
      [] target.k = "changingThen" /\ target.n # 1 ->
            [threw |-> FALSE, ex |-> NoExc, then |-> "thenAtLaterRead"]
      [] OTHER ->
            [threw |-> FALSE, ex |-> NoExc, then |-> "null"]

\* getThen(target) in heap s: the then function that the read of target.then
\* (line 262) gives, "null" when target has none, or the exception its getter
\* threw. For ChangingThen(n) the first read gives a function, a later read
\* throws (n = 1) or gives another function (n = 2); for every other value the
\* read gives the same at all times.
getThen(s, target) ==
    CASE target.k = "promise" ->
            [threw |-> FALSE, ex |-> NoExc, then |-> "FidPromise.prototype.then"]
      [] target.k = "foreign" ->
            [threw |-> FALSE, ex |-> NoExc, then |-> "foreign"]
      [] target.k = "throwingThen" ->
            [threw |-> TRUE, ex |-> GetterThrows(target.n), then |-> "null"]
      [] target.k = "changingThen" /\ s.reads[target.n] = 0 ->
            [threw |-> FALSE, ex |-> NoExc, then |-> "thenAtFirstRead"]
      [] target.k = "changingThen" /\ target.n = 1 ->
            [threw |-> TRUE, ex |-> GetterThrows(target.n), then |-> "null"]
      [] target.k = "changingThen" ->
            [threw |-> FALSE, ex |-> NoExc, then |-> "thenAtLaterRead"]
      [] OTHER ->
            [threw |-> FALSE, ex |-> NoExc, then |-> "null"]

\* The heap after that read.
noteRead(s, target) ==
    IF target.k = "changingThen"
    THEN [s EXCEPT !.reads[target.n] = @ + 1]
    ELSE s

\* The foreign then that the function otherThen, read from otherPromise, is,
\* by the number of its ForeignThen: the then of Foreign(f) is that of f; the
\* function ChangingThen(1) gives first calls back later, the one
\* ChangingThen(2) gives first calls back at once, and the one it gives later
\* throws.
ThenFunction(otherPromise, otherThen) ==
    CASE otherThen = "thenAtFirstRead" -> IF otherPromise.n = 1 THEN 1 ELSE 9
      [] otherThen = "thenAtLaterRead" -> 5
      [] OTHER -> otherPromise.n

\* new FidPromise(): s.ret is the new instance, with state null, data [] and
\* an empty thenCallArray.
FidPromise(s) ==
    IF s.overflow \/ s.created + 1 \notin Promises
    THEN [s EXCEPT !.overflow = TRUE]
    ELSE debugMessage([s EXCEPT !.created = @ + 1, !.ret = s.created + 1],
                      s.created + 1, "New promise")

\* doubleCheck without its latch: every call passes.
doubleCheckNoLatch(s, a) ==
    [ok |-> TRUE, s |-> [s EXCEPT !.attached[a].wasCalled = TRUE]]

\* doubleCheck of the a-th attachTo call: ok is its result (true on the first
\* call only), s the heap after it.
doubleCheck(s, a) ==
    IF s.attached[a].wasCalled
    THEN [ok |-> FALSE,
          s |-> debugMessage(s, s.attached[a].promise,
                             "Ignoring another resolution from the other promise")]
    ELSE [ok |-> TRUE,
          s |-> debugMessage([s EXCEPT !.attached[a].wasCalled = TRUE],
                             s.attached[a].promise, "by another promise")]

\* A call of one of the two closures attachTo call a handed to otherThen:
\* type "Resolved" is the first (lines 98-102), "Rejected" the second
\* (lines 102-106).
forward(s, a, type, value) ==
    IF s.overflow
    THEN s
    ELSE LET d == doubleCheck(s, a)
         IN  IF d.ok
             THEN complete(d.s, s.attached[a].promise, type = "Resolved", value)
             ELSE d.s

\* n elements that were never assigned.
Holes(n) == IF n <= 0 THEN << >> ELSE Append(Holes(n - 1), Hole)

\* array[index] = value, index counted from 0 as in the source.
assign(array, index, value) ==
    IF index + 1 <= Len(array)
    THEN [array EXCEPT ![index + 1] = value]
    ELSE Append(array \o Holes(index - Len(array)), value)

\* checkCount of the g-th call, an after call (lines 308-318).
checkCount(s, g) ==
    LET A == s.aggs[g]
    IN  IF A.waitingFor = 0
        THEN complete(debugMessage(s, A.myself, "(after) Final error count"),
                      A.myself, A.endSuccess,
                      ArrayRef(IF A.endSuccess
                               THEN A.successResults ELSE A.failResults))
        ELSE s

\* The assignments of the closures with waitingFor counted down by the first
\* closure only.
memberAssignmentsCountsSuccesses(s, c, type, result) ==
    LET g == s.members[c].agg
        A == s.aggs[g]
        s1 == [s EXCEPT !.aggs[g].waitingFor =
                            IF type = "memberResolved" THEN @ - 1 ELSE @]
    IN  CASE type = "memberResolved" /\ result = Undefined -> s1
          [] type = "memberResolved" /\ A.kind = "when" ->
                [s1 EXCEPT !.arrays[A.successResults] = Append(@, result)]
          [] type = "memberResolved" /\ A.kind = "after" ->
                [s1 EXCEPT !.arrays[A.successResults] =
                               assign(@, s.members[c].index, result)]
          [] type = "memberRejected" /\ A.kind = "after" ->
                [s1 EXCEPT !.arrays[A.failResults] = Append(@, result),
                           !.aggs[g].endSuccess = FALSE]
          [] OTHER -> s1

\* The local variables and arrays after the assignments of the closure of
\* forEach iteration c that was called with result: waitingFor -= 1, then
\* successResults.push(result) in when (line 450), successResults[index] =
\* result in after (line 328), failResults.push(result) and endSuccess = false
\* in after (lines 335-336).
memberAssignments(s, c, type, result) ==
    LET g == s.members[c].agg
        A == s.aggs[g]
        s1 == [s EXCEPT !.aggs[g].waitingFor = @ - 1]
    IN  CASE type = "memberResolved" /\ result = Undefined -> s1
          [] type = "memberResolved" /\ A.kind = "when" ->
                [s1 EXCEPT !.arrays[A.successResults] = Append(@, result)]
          [] type = "memberResolved" /\ A.kind = "after" ->
                [s1 EXCEPT !.arrays[A.successResults] =
                               assign(@, s.members[c].index, result)]
          [] type = "memberRejected" /\ A.kind = "after" ->
                [s1 EXCEPT !.arrays[A.failResults] = Append(@, result),
                           !.aggs[g].endSuccess = FALSE]
          [] OTHER -> s1

\* The closures of after with a failure closure that rejects at once, as the
\* one of when does.
memberCallFailFast(s, c, type, result) ==
    IF s.overflow
    THEN s
    ELSE LET g == s.members[c].agg
             A == s.aggs[g]
             s1 == memberAssignments(s, c, type, result)
         IN  IF type = "memberRejected"
             THEN complete(s1, A.myself, FALSE, result)
             ELSE IF A.kind = "after"
                  THEN checkCount(s1, g)
                  ELSE IF s1.aggs[g].waitingFor = 0
                       THEN complete(s1, A.myself, TRUE, ArrayRef(A.successResults))
                       ELSE s1

\* The closures of when with a success closure that resolves at its first
\* call, without a look at waitingFor.
memberCallResolvesAtOnce(s, c, type, result) ==
    IF s.overflow
    THEN s
    ELSE LET g == s.members[c].agg
             A == s.aggs[g]
             s1 == memberAssignments(s, c, type, result)
         IN  IF A.kind = "after"
             THEN checkCount(s1, g)
             ELSE complete(s1, A.myself, type = "memberResolved",
                           IF type = "memberResolved"
                           THEN ArrayRef(A.successResults) ELSE result)

\* The closures of when with a failure closure that rejects only when nothing
\* is waited for any more.
memberCallWaitsForAll(s, c, type, result) ==
    IF s.overflow
    THEN s
    ELSE LET g == s.members[c].agg
             A == s.aggs[g]
             s1 == memberAssignments(s, c, type, result)
         IN  IF A.kind = "after"
             THEN checkCount(s1, g)
             ELSE IF s1.aggs[g].waitingFor = 0
                  THEN complete(s1, A.myself, type = "memberResolved",
                                IF type = "memberResolved"
                                THEN ArrayRef(A.successResults) ELSE result)
                  ELSE s1

\* A call of one of the two closures that forEach iteration c of a when call
\* (lines 445-464) or of an after call (lines 324-340) handed to the then of a
\* member: type "memberResolved" is the first, "memberRejected" the second.
\* In when the first resolves myself when waitingFor is 0 and the second
\* rejects it; in after both end with checkCount.
memberCall(s, c, type, result) ==
    IF s.overflow
    THEN s
    ELSE LET g == s.members[c].agg
             A == s.aggs[g]
             s1 == debugMessage(memberAssignments(s, c, type, result),
                                A.myself, "left")
         IN  IF A.kind = "after"
             THEN checkCount(s1, g)
             ELSE IF type = "memberRejected" \/ s1.aggs[g].waitingFor = 0
                  THEN complete(s1, A.myself, type = "memberResolved",
                                IF type = "memberResolved"
                                THEN ArrayRef(A.successResults) ELSE result)
                  ELSE s1

\* The timer function with success taken from the kind of the callback: what
\* onError returns rejects nextPromise.
timerBodyKeepsKind(s, t) ==
    LET arg == s.data[t.parentPromise]
        s1 == [s EXCEPT !.calls =
                   Append(@, [id |-> t.thenCall.id, which |-> t.which,
                              parent |-> t.parentPromise, arg |-> arg])]
        s2 == IF t.fn.act \in {"Resolved", "Rejected"}
              THEN forward(s1, t.fn.val.n, t.fn.act, arg)
              ELSE IF t.fn.act \in {"memberResolved", "memberRejected"}
                   THEN memberCall(s1, t.fn.val.n, t.fn.act, arg)
                   ELSE s1
        value == IF t.fn.act \in {"return", "throw"} THEN t.fn.val ELSE Undefined
        success == (t.fn.act # "throw") /\ (t.which = "onSuccess")
    IN  complete(s2, t.thenCall.nextPromise, success, value)

\* The timer function without its try: what the callback throws ends the
\* task queue, the timers that are set never fire.
timerBodyLetsThrowEscape(s, t) ==
    LET arg == s.data[t.parentPromise]
        s1 == [s EXCEPT !.calls =
                   Append(@, [id |-> t.thenCall.id, which |-> t.which,
                              parent |-> t.parentPromise, arg |-> arg])]
        s2 == IF t.fn.act \in {"Resolved", "Rejected"}
              THEN forward(s1, t.fn.val.n, t.fn.act, arg)
              ELSE IF t.fn.act \in {"memberResolved", "memberRejected"}
                   THEN memberCall(s1, t.fn.val.n, t.fn.act, arg)
                   ELSE s1
        value == IF t.fn.act \in {"return", "throw"} THEN t.fn.val ELSE Undefined
    IN  IF t.fn.act = "throw"
        THEN [s2 EXCEPT !.timers = << >>, !.exc = value]
        ELSE complete(s2, t.thenCall.nextPromise, TRUE, value)

\* The timer function that puts off a closure of when or after by one more
\* timer before it calls it.
timerBodyTwoHops(s, t) ==
    LET arg == s.data[t.parentPromise]
        s1 == [s EXCEPT !.calls =
                   Append(@, [id |-> t.thenCall.id, which |-> t.which,
                              parent |-> t.parentPromise, arg |-> arg])]
        s2 == IF t.fn.act \in {"Resolved", "Rejected"}
              THEN forward(s1, t.fn.val.n, t.fn.act, arg)
              ELSE IF t.fn.act \in {"memberResolved", "memberRejected"}
                   THEN memberCall(s1, t.fn.val.n, t.fn.act, arg)
                   ELSE s1
        value == IF t.fn.act \in {"return", "throw"} THEN t.fn.val ELSE Undefined
        success == (t.fn.act # "throw")
    IN  IF t.fn.act \in {"memberResolved", "memberRejected"}
           /\ t.thenCall.nextPromise # 0
        THEN [s EXCEPT !.timers =
                  Append(@, [t EXCEPT !.thenCall.nextPromise = 0])]
        ELSE complete(s2, t.thenCall.nextPromise, success, value)

\* The timer function that throws on what the callback threw when there is no
\* nextPromise to reject.
timerBodyReportsUnhandled(s, t) ==
    LET arg == s.data[t.parentPromise]
        s1 == [s EXCEPT !.calls =
                   Append(@, [id |-> t.thenCall.id, which |-> t.which,
                              parent |-> t.parentPromise, arg |-> arg])]
        s2 == IF t.fn.act \in {"Resolved", "Rejected"}
              THEN forward(s1, t.fn.val.n, t.fn.act, arg)
              ELSE IF t.fn.act \in {"memberResolved", "memberRejected"}
                   THEN memberCall(s1, t.fn.val.n, t.fn.act, arg)
                   ELSE s1
        value == IF t.fn.act \in {"return", "throw"} THEN t.fn.val ELSE Undefined
        success == (t.fn.act # "throw")
    IN  IF t.thenCall.nextPromise = 0 /\ ~success
        THEN [s2 EXCEPT !.exc = value]
        ELSE complete(s2, t.thenCall.nextPromise, success, value)

\* The function callNext hands to setTimeout (lines 138-150), for the timer
\* record t: calls fn with the parent's data, then completes nextPromise.
timerBody(s, t) ==
    LET arg == s.data[t.parentPromise]
        s1 == [s EXCEPT !.calls =
                   Append(@, [id |-> t.thenCall.id, which |-> t.which,
                              parent |-> t.parentPromise, arg |-> arg])]
        s2 == IF t.fn.act \in {"Resolved", "Rejected"}
              THEN forward(s1, t.fn.val.n, t.fn.act, arg)
              ELSE IF t.fn.act \in {"memberResolved", "memberRejected"}
                   THEN memberCall(s1, t.fn.val.n, t.fn.act, arg)
                   ELSE s1
        value == IF t.fn.act \in {"return", "throw"} THEN t.fn.val ELSE Undefined
        success == (t.fn.act # "throw")
    IN  complete(s2, t.thenCall.nextPromise, success, value)

\* callNext with the two callbacks taken for each other.
callNextSwapped(s, parentPromise, thenCall) ==
    IF s.overflow
    THEN s
    ELSE LET s0 == [s EXCEPT !.dispatched[thenCall.id] = @ + 1]
             which == IF s.state[parentPromise] = "true"
                      THEN "onError" ELSE "onSuccess"
             fn == IF which = "onSuccess"
                   THEN thenCall.onSuccess ELSE thenCall.onError
         IN  IF fn.act = "none"
             THEN complete(s0, thenCall.nextPromise,
                           s.state[parentPromise] = "true", s.data[parentPromise])
             ELSE [s0 EXCEPT !.timers =
                        Append(@, [fn |-> fn, which |-> which,
                                   parentPromise |-> parentPromise,
                                   thenCall |-> thenCall])]

\* callNext without setTimeout: the callback is called at once.
callNextSync(s, parentPromise, thenCall) ==
    IF s.overflow
    THEN s
    ELSE LET s0 == [s EXCEPT !.dispatched[thenCall.id] = @ + 1]
             which == IF s.state[parentPromise] = "true"
                      THEN "onSuccess" ELSE "onError"
             fn == IF which = "onSuccess"
                   THEN thenCall.onSuccess ELSE thenCall.onError
         IN  IF fn.act = "none"
             THEN complete(s0, thenCall.nextPromise,
                           s.state[parentPromise] = "true", s.data[parentPromise])
             ELSE timerBody(s0, [fn |-> fn, which |-> which,
                                 parentPromise |-> parentPromise,
                                 thenCall |-> thenCall])

\* callNext that returns when fn is no function, without completing
\* nextPromise.
callNextDropsOutcome(s, parentPromise, thenCall) ==
    IF s.overflow
    THEN s
    ELSE LET s0 == [s EXCEPT !.dispatched[thenCall.id] = @ + 1]
             which == IF s.state[parentPromise] = "true"
                      THEN "onSuccess" ELSE "onError"
             fn == IF which = "onSuccess"
                   THEN thenCall.onSuccess ELSE thenCall.onError
         IN  IF fn.act = "none"
             THEN s0
             ELSE [s0 EXCEPT !.timers =
                        Append(@, [fn |-> fn, which |-> which,
                                   parentPromise |-> parentPromise,
                                   thenCall |-> thenCall])]

\* callNext that passes the outcome of the parent to nextPromise before it
\* sets the timer of the callback.
callNextPassesFirst(s, parentPromise, thenCall) ==
    IF s.overflow
    THEN s
    ELSE LET s0 == [s EXCEPT !.dispatched[thenCall.id] = @ + 1]
             which == IF s.state[parentPromise] = "true"
                      THEN "onSuccess" ELSE "onError"
             fn == IF which = "onSuccess"
                   THEN thenCall.onSuccess ELSE thenCall.onError
             s1 == complete(s0, thenCall.nextPromise,
                            s.state[parentPromise] = "true", s.data[parentPromise])
         IN  IF fn.act = "none"
             THEN s1
             ELSE [s1 EXCEPT !.timers =
                        Append(@, [fn |-> fn, which |-> which,
                                   parentPromise |-> parentPromise,
                                   thenCall |-> thenCall])]

\* callNext that dispatches nothing for a rejected parent.
callNextOnSuccessOnly(s, parentPromise, thenCall) ==
    IF s.overflow
    THEN s
    ELSE LET s0 == [s EXCEPT !.dispatched[thenCall.id] = @ + 1]
             fn == thenCall.onSuccess
         IN  IF s.state[parentPromise] # "true"
             THEN s0
             ELSE IF fn.act = "none"
                  THEN complete(s0, thenCall.nextPromise, TRUE, s.data[parentPromise])
                  ELSE [s0 EXCEPT !.timers =
                             Append(@, [fn |-> fn, which |-> "onSuccess",
                                        parentPromise |-> parentPromise,
                                        thenCall |-> thenCall])]

\* callNext(parentPromise, thenCall): which is the branch of lines 125-129
\* that chose fn.
callNext(s, parentPromise, thenCall) ==
    IF s.overflow
    THEN s
    ELSE LET s0 == [s EXCEPT !.dispatched[thenCall.id] = @ + 1]
             which == IF s.state[parentPromise] = "true"
                      THEN "onSuccess" ELSE "onError"
             fn == IF which = "onSuccess"
                   THEN thenCall.onSuccess ELSE thenCall.onError
         IN  IF fn.act = "none"
             THEN complete(debugMessage(s0, parentPromise,
                                        "CallBack hit non-function"),
                           thenCall.nextPromise,
                           s.state[parentPromise] = "true", s.data[parentPromise])
             ELSE [s0 EXCEPT !.timers =
                        Append(@, [fn |-> fn, which |-> which,
                                   parentPromise |-> parentPromise,
                                   thenCall |-> thenCall])]

\* addCallbacks that only stores the thenCall, also on a settled instance.
addCallbacksNoLateDispatch(s, promise, onSuccess, onError, nextPromise) ==
    IF s.overflow \/ s.nThenCalls >= MaxThenCalls
    THEN [s EXCEPT !.overflow = TRUE]
    ELSE LET thenCall == [id |-> s.nThenCalls + 1,
                          onSuccess |-> onSuccess,
                          onError |-> onError,
                          nextPromise |-> nextPromise]
         IN  [s EXCEPT !.nThenCalls = @ + 1,
                       !.thenCallArray[promise] = Append(@, thenCall),
                       !.ret = promise]

\* addCallbacks(promise, onSuccess, onError, nextPromise); nextPromise 0 is
\* undefined. s.ret is what it returns.
addCallbacks(s, promise, onSuccess, onError, nextPromise) ==
    IF s.overflow \/ s.nThenCalls >= MaxThenCalls
    THEN [s EXCEPT !.overflow = TRUE]
    ELSE LET thenCall == [id |-> s.nThenCalls + 1,
                          onSuccess |-> onSuccess,
                          onError |-> onError,
                          nextPromise |-> nextPromise]
             s1 == [debugMessage(s, promise, "Adding callbacks") EXCEPT
                        !.nThenCalls = @ + 1,
                        !.thenCallArray[promise] = Append(@, thenCall)]
             s2 == IF s1.state[promise] # "null"
                   THEN callNext(debugMessage(s1, promise, "Already resolved"),
                                 promise, thenCall)
                   ELSE s1
         IN  [s2 EXCEPT !.ret = promise]

\* then that returns what addCallbacks returns: the instance it was called on.
thenReturnsThis(s, promise, onSuccess, onError) ==
    LET s1 == FidPromise(s)
    IN  IF s1.overflow
        THEN s1
        ELSE addCallbacks(s1, promise, onSuccess, onError, s1.ret)

\* FidPromise.prototype.then; s.ret is the instance it returns.
then(s, promise, onSuccess, onError) ==
    LET s1 == FidPromise(debugMessage(s, promise, "(then) Creating new promise"))
    IN  IF s1.overflow
        THEN s1
        ELSE LET nextPromise == s1.ret
                 s2 == addCallbacks(s1, promise, onSuccess, onError, nextPromise)
             IN  [s2 EXCEPT !.ret = nextPromise]

\* The calls a foreign then makes on its callbacks, in order.
runCalls(s, a, script) ==
    IF script = << >> \/ s.overflow
    THEN s
    ELSE runCalls(forward(s, a, Head(script).cb, Head(script).val), a, Tail(script))

\* otherThen.call(otherPromise, ...) for the then of Foreign(f): the calls it
\* makes before it returns, the callbacks it keeps for later, what it throws.
foreignThen(s, a, f) ==
    LET s1 == runCalls(s, a, ForeignThen(f).sync)
    IN  IF s1.overflow
        THEN s1
        ELSE [s1 EXCEPT !.attached[a].later = ForeignThen(f).later,
                        !.exc = ForeignThen(f).throws]

\* attachTo whose catch rejects without asking doubleCheck.
attachToCatchUnchecked(s, promise, otherPromise, otherThen) ==
    IF s.overflow \/ Len(s.attached) >= MaxAttach
    THEN [s EXCEPT !.overflow = TRUE]
    ELSE LET a == Len(s.attached) + 1
             s1 == [s EXCEPT !.attached =
                        Append(@, [promise |-> promise, other |-> otherPromise,
                                   wasCalled |-> FALSE, later |-> << >>])]
             s2 == IF otherThen = "FidPromise.prototype.then"
                   THEN then(s1, otherPromise.n, Forward("Resolved", a),
                             Forward("Rejected", a))
                   ELSE foreignThen(s1, a, ThenFunction(otherPromise, otherThen))
         IN  IF s2.overflow \/ s2.exc = NoExc
             THEN s2
             ELSE complete([s2 EXCEPT !.exc = NoExc, !.attached[a].wasCalled = TRUE],
                           promise, FALSE, s2.exc)

\* attachTo without its try: what otherThen throws stays in flight.
attachToNoCatch(s, promise, otherPromise, otherThen) ==
    IF s.overflow \/ Len(s.attached) >= MaxAttach
    THEN [s EXCEPT !.overflow = TRUE]
    ELSE LET a == Len(s.attached) + 1
             s1 == [s EXCEPT !.attached =
                        Append(@, [promise |-> promise, other |-> otherPromise,
                                   wasCalled |-> FALSE, later |-> << >>])]
         IN  IF otherThen = "FidPromise.prototype.then"
             THEN then(s1, otherPromise.n, Forward("Resolved", a),
                       Forward("Rejected", a))
             ELSE foreignThen(s1, a, ThenFunction(otherPromise, otherThen))

\* attachTo(promise, otherPromise, otherThen): the record appended to
\* s.attached is the closure of this call (promise, otherPromise, wasCalled)
\* with the calls the foreign then still has to make.
attachTo(s, promise, otherPromise, otherThen) ==
    IF s.overflow \/ Len(s.attached) >= MaxAttach
    THEN [s EXCEPT !.overflow = TRUE]
    ELSE LET a == Len(s.attached) + 1
             s1 == debugMessage(
                       [s EXCEPT !.attached =
                           Append(@, [promise |-> promise, other |-> otherPromise,
                                      wasCalled |-> FALSE, later |-> << >>])],
                       promise, "Attaching to another promise")
             s2 == IF otherThen = "FidPromise.prototype.then"
                   THEN then(s1, otherPromise.n, Forward("Resolved", a),
                             Forward("Rejected", a))
                   ELSE foreignThen(s1, a, ThenFunction(otherPromise, otherThen))
         IN  IF s2.overflow \/ s2.exc = NoExc
             THEN s2
             ELSE \* catch (ex)
                  LET d == doubleCheck([s2 EXCEPT !.exc = NoExc], a)
                  IN  IF d.ok
                      THEN complete(d.s, promise, FALSE, s2.exc)
                      ELSE d.s

\* The calls the then of a foreign member makes on the closures of forEach
\* iteration c, in order.
runMemberCalls(s, c, script) ==
    IF script = << >> \/ s.overflow
    THEN s
    ELSE runMemberCalls(
             memberCall(s, c, IF Head(script).cb = "Resolved"
                              THEN "memberResolved" ELSE "memberRejected",
                        Head(script).val),
             c, Tail(script))

\* The end of the then of Foreign(f) that a member iteration called: it keeps
\* the callbacks for its later calls and returns or throws.
foreignMemberThenEnd(s1, c, f) ==
    IF s1.overflow
    THEN s1
    ELSE [s1 EXCEPT !.members[c].later = ForeignThen(f).later,
                    !.exc = ForeignThen(f).throws]

\* promise.then(...) in when and after for a member that is Foreign(f): the
\* calls it makes before it returns, the callbacks it keeps for later, what it
\* throws.
foreignMemberThen(s, c, f) ==
    foreignMemberThenEnd(runMemberCalls(s, c, ForeignThen(f).sync), c, f)

\* The function when and after hand to promises.forEach (lines 441-466 and
\* 320-341), called for element i of the array of the g-th call. The then of
\* the element is read twice: by getThen(promise) (lines 442 and 321), and by
\* promise.then(...) (lines 445 and 324), which calls the function of the
\* second read; what that read or that function throws leaves the iteration.
memberIteration(s, g, i) ==
    LET promise == s.aggs[g].promises[i]
        got == getThen(s, promise)
        sr == noteRead(s, promise)
        c == Len(s.members) + 1
        s1 == debugMessage(
                  [sr EXCEPT
                     !.aggs[g].waitingFor = @ + 1,
                     !.members = Append(@, [agg |-> g, index |-> i - 1,
                                            other |-> promise, later |-> << >>])],
                  s.aggs[g].myself, "Adding then")
        again == getThen(s1, promise)
        s2 == noteRead(s1, promise)
    IN  CASE got.threw -> [sr EXCEPT !.exc = got.ex]
          [] got.then = "null" -> sr
          [] again.threw -> [s2 EXCEPT !.exc = again.ex]
          [] again.then = "FidPromise.prototype.then" ->
                then(s2, promise.n, MemberCallback("memberResolved", c),
                     MemberCallback("memberRejected", c))
          [] OTHER -> foreignMemberThen(s2, c, ThenFunction(promise, again.then))

\* promises.forEach of the g-th when or after call, from element i; an
\* exception ends it.
forEachMember(s, g, i) ==
    IF s.overflow \/ s.exc # NoExc \/ i > Len(s.aggs[g].promises)
    THEN s
    ELSE forEachMember(memberIteration(s, g, i), g, i + 1)

\* The local variables of a when call (lines 437-439) or an after call (lines
\* 302-306) on myself: the new record of aggs, with its new arrays.
newAggregate(s, kind, myself, promises) ==
    [s EXCEPT
       !.arrays = IF kind = "after"
                  THEN Append(Append(@, << >>), << >>)
                  ELSE Append(@, << >>),
       !.aggs = Append(@, [kind |-> kind, myself |-> myself,
                           promises |-> promises,
                           waitingFor |-> 0,
                           successResults |-> Len(s.arrays) + 1,
                           failResults |-> IF kind = "after"
                                           THEN Len(s.arrays) + 2 ELSE 0,
                           endSuccess |-> TRUE])]

\* The end of the g-th call, a when call, after forEach (lines 467-474). Line
\* 468 resolves with this.successResults, a property no instance has:
\* undefined.
whenEnd(s2, g, myself) ==
    IF s2.overflow \/ s2.exc # NoExc
    THEN s2
    ELSE [(IF s2.aggs[g].waitingFor = 0
           THEN complete(debugMessage(s2, myself, "(when) Immediately resolved"),
                         myself, TRUE, Undefined)
           ELSE s2) EXCEPT !.ret = myself]

\* FidPromise.prototype.when(promises), called on myself.
when(s, myself, promises) ==
    IF s.overflow \/ Len(s.aggs) >= MaxAggregates
    THEN [s EXCEPT !.overflow = TRUE]
    ELSE whenEnd(forEachMember(newAggregate(s, "when", myself, promises),
                               Len(s.aggs) + 1, 1),
                 Len(s.aggs) + 1, myself)

\* The end of the g-th call, an after call, after forEach (lines 343-345).
afterEnd(s2, g, myself) ==
    IF s2.overflow \/ s2.exc # NoExc
    THEN s2
    ELSE [checkCount(s2, g) EXCEPT !.ret = myself]

\* FidPromise.prototype.after(promises), called on myself.
after(s, myself, promises) ==
    IF s.overflow \/ Len(s.aggs) >= MaxAggregates
    THEN [s EXCEPT !.overflow = TRUE]
    ELSE afterEnd(forEachMember(newAggregate(s, "after", myself, promises),
                                Len(s.aggs) + 1, 1),
                  Len(s.aggs) + 1, myself)

\* forEach that walks the array from its end.
forEachCallNextReversed(s, promise, i, n) ==
    IF i > n \/ s.overflow
    THEN s
    ELSE forEachCallNextReversed(
             callNext(s, promise, s.thenCallArray[promise][n + 1 - i]),
             promise, i + 1, n)

\* promise.thenCallArray.forEach(callNext), from index i to the length n the
\* array had when forEach began.
forEachCallNext(s, promise, i, n) ==
    IF i > n \/ s.overflow
    THEN s
    ELSE forEachCallNext(callNext(s, promise, s.thenCallArray[promise][i]),
                         promise, i + 1, n)

\* complete without the test of lines 170-175: an instance may attach to
\* itself.
completeNoSelfCheck(s, promise, wasSuccess, value) ==
    IF s.overflow \/ promise = 0
    THEN s
    ELSE IF s.state[promise] # "null"
         THEN s
         ELSE LET got == getThen(s, value)
                  value2 == IF got.threw THEN got.ex ELSE value
                  wasSuccess2 == IF got.threw THEN FALSE ELSE wasSuccess
                  sc == noteRead(s, value)
              IN  IF got.then # "null"
                  THEN attachTo(sc, promise, value2, got.then)
                  ELSE LET s1 == [sc EXCEPT
                                    !.state[promise] =
                                        IF wasSuccess2 THEN "true" ELSE "false",
                                    !.data[promise] = value2]
                       IN  forEachCallNext(s1, promise, 1,
                                           Len(s1.thenCallArray[promise]))

\* complete that calls value.then(...) to attach: then is read a second time,
\* and what that read throws leaves complete.
completeReadsTwice(s, promise, wasSuccess, value) ==
    IF s.overflow \/ promise = 0
    THEN s
    ELSE LET self == (value = PromiseRef(promise))
             value1 == IF self THEN TypeErr ELSE value
             wasSuccess1 == IF self THEN FALSE ELSE wasSuccess
         IN  IF s.state[promise] # "null"
             THEN s
             ELSE LET got == getThen(s, value1)
                      value2 == IF got.threw THEN got.ex ELSE value1
                      wasSuccess2 == IF got.threw THEN FALSE ELSE wasSuccess1
                      sc == noteRead(s, value1)
                      again == getThen(sc, value2)
                  IN  IF got.then # "null"
                      THEN IF again.threw
                           THEN [noteRead(sc, value2) EXCEPT !.exc = again.ex]
                           ELSE attachTo(noteRead(sc, value2), promise, value2,
                                         again.then)
                      ELSE LET s1 == [sc EXCEPT
                                        !.state[promise] =
                                            IF wasSuccess2 THEN "true" ELSE "false",
                                        !.data[promise] = value2]
                           IN  forEachCallNext(s1, promise, 1,
                                               Len(s1.thenCallArray[promise]))

\* complete whose test of lines 170-175 also finds an instance that is
\* attached to promise.
completeDetectsCycles(s, promise, wasSuccess, value) ==
    IF s.overflow \/ promise = 0
    THEN s
    ELSE LET self == \/ value = PromiseRef(promise)
                     \/ /\ value.k = "promise"
                        /\ \E a \in DOMAIN s.attached :
                              /\ s.attached[a].promise = value.n
                              /\ s.attached[a].other = PromiseRef(promise)
             value1 == IF self THEN TypeErr ELSE value
             wasSuccess1 == IF self THEN FALSE ELSE wasSuccess
         IN  IF s.state[promise] # "null"
             THEN s
             ELSE LET got == getThen(s, value1)
                      value2 == IF got.threw THEN got.ex ELSE value1
                      wasSuccess2 == IF got.threw THEN FALSE ELSE wasSuccess1
                      sc == noteRead(s, value1)
                  IN  IF got.then # "null"
                      THEN attachTo(sc, promise, value2, got.then)
                      ELSE LET s1 == [sc EXCEPT
                                        !.state[promise] =
                                            IF wasSuccess2 THEN "true" ELSE "false",
                                        !.data[promise] = value2]
                           IN  forEachCallNext(s1, promise, 1,
                                               Len(s1.thenCallArray[promise]))

\* complete(promise, wasSuccess, value); promise 0 is undefined.
complete(s, promise, wasSuccess, value) ==
    IF s.overflow \/ promise = 0
    THEN s
    ELSE LET self == (value = PromiseRef(promise))
             value1 == IF self THEN TypeErr ELSE value
             wasSuccess1 == IF self THEN FALSE ELSE wasSuccess
             sa == debugMessage(s, promise, "complete")
             sb == IF self
                   THEN debugMessage(sa, promise,
                                     "Can not resolve a promise with itself")
                   ELSE sa
         IN  IF s.state[promise] # "null"
             THEN debugMessage(sb, promise,
                               "Complete called a second time - ignoring")
             ELSE LET got == getThen(sb, value1)
                      value2 == IF got.threw THEN got.ex ELSE value1
                      wasSuccess2 == IF got.threw THEN FALSE ELSE wasSuccess1
                      sc == IF got.threw
                            THEN debugMessage(noteRead(sb, value1), promise,
                                              "Accessing .then threw an error")
                            ELSE noteRead(sb, value1)
                  IN  IF got.then # "null"
                      THEN attachTo(sc, promise, value2, got.then)
                      ELSE LET s1 == debugMessage(
                                        [sc EXCEPT
                                           !.state[promise] =
                                               IF wasSuccess2 THEN "true" ELSE "false",
                                           !.data[promise] = value2],
                                        promise, "Complete - state is now")
                           IN  forEachCallNext(s1, promise, 1,
                                               Len(s1.thenCallArray[promise]))

(* ------------------- the library of src/fid-promise.js ------------------ *)
\* In this file data is the list of the arguments of resolve or reject, a
\* sequence, and a callback is applied to it. The thenables it meets here are
\* its own instances.
RECURSIVE PromiseComplete(_, _, _, _)
RECURSIVE PromiseCallBack(_, _, _)
RECURSIVE PromiseForEachCallBack(_, _, _, _)

\* The closures chainThenable hands to thenable.then (lines 194-198): they
\* complete chainedPromise with their arguments.
ChainCallback(type, chainedPromise) ==
    [act |-> type, val |-> [k |-> "chained", n |-> chainedPromise]]

\* What a read of target.then gives in heap s (line 50 in isThenable, line 194
\* in chainThenable, line 399 in when): the function, "null" when target has
\* none, or the exception its getter threw. For ChangingThen(n) the first read
\* gives a function, a later read throws (n = 1) or gives another function
\* (n = 2).
PromiseReadThen(s, target) ==
    CASE target.k = "promise" ->
            [threw |-> FALSE, ex |-> NoExc, then |-> "Promise.prototype.then"]
      [] target.k = "foreign" ->
            [threw |-> FALSE, ex |-> NoExc, then |-> "foreign"]
      [] target.k = "throwingThen" ->
            [threw |-> TRUE, ex |-> GetterThrows(target.n), then |-> "null"]
      [] target.k = "changingThen" /\ s.reads[target.n] = 0 ->
            [threw |-> FALSE, ex |-> NoExc, then |-> "thenAtFirstRead"]
      [] target.k = "changingThen" /\ target.n = 1 ->
            [threw |-> TRUE, ex |-> GetterThrows(target.n), then |-> "null"]
      [] target.k = "changingThen" ->
            [threw |-> FALSE, ex |-> NoExc, then |-> "thenAtLaterRead"]
      [] OTHER ->
            [threw |-> FALSE, ex |-> NoExc, then |-> "null"]

\* isThenable(target) in heap s (lines 48-57): true when the read of
\* target.then gives a function; a getter that throws is caught. The heap
\* after its read is noteRead(s, target).
isThenable(s, target) ==
    /\ ~PromiseReadThen(s, target).threw
    /\ PromiseReadThen(s, target).then # "null"

\* The call of a then function that is not the one of the instances, read from
\* thenable: a function that calls nothing back returns or throws; one that
\* calls back is outside this model.
PromiseForeignThen(s, thenable, thenFunction) ==
    LET f == ThenFunction(thenable, thenFunction)
    IN  IF thenFunction # "null" /\ ForeignThen(f).sync = << >>
           /\ ForeignThen(f).later = << >>
        THEN [s EXCEPT !.exc = ForeignThen(f).throws]
        ELSE [s EXCEPT !.overflow = TRUE]

\* Promise.prototype.addCallbacks of src/fid-promise.js, called on this; a
\* missing chainedPromise is 0. s.ret is what it returns.
PromiseAddCallbacks(s, this, onSuccess, onError, chainedPromise) ==
    IF s.overflow \/ s.nThenCalls >= MaxThenCalls
    THEN [s EXCEPT !.overflow = TRUE]
    ELSE LET thenCall == [id |-> s.nThenCalls + 1,
                          onSuccess |-> onSuccess,
                          onError |-> onError,
                          chainedPromise |-> chainedPromise]
             s1 == [s EXCEPT !.nThenCalls = @ + 1,
                             !.thenCallArray[this] = Append(@, thenCall)]
         IN  [(IF s1.state[this] # "null"
               THEN PromiseCallBack(s1, this, thenCall)
               ELSE s1) EXCEPT !.ret = this]

\* Promise.prototype.then of src/fid-promise.js (lines 338-345); the
\* constructor is called without arguments and calls no when.
PromiseThen(s, this, onSuccess, onError) ==
    IF s.overflow \/ s.created + 1 \notin Promises
    THEN [s EXCEPT !.overflow = TRUE]
    ELSE [PromiseAddCallbacks([s EXCEPT !.created = @ + 1],
                              this, onSuccess, onError, s.created + 1)
            EXCEPT !.ret = s.created + 1]

\* The catch of chainThenable (lines 199-201), after the try ended with heap
\* r: what was thrown rejects chainedPromise.
PromiseChainThenableCatch(r, chainedPromise) ==
    IF r.overflow \/ r.exc = NoExc
    THEN r
    ELSE PromiseComplete([r EXCEPT !.exc = NoExc], chainedPromise, FALSE,
                         << r.exc >>)

\* Promise.prototype.chainThenable (lines 191-202): thenable.then(...) reads
\* then again, after the read of isThenable, and calls what that read gives.
PromiseChainThenable(s, chainedPromise, thenable) ==
    LET again == PromiseReadThen(s, thenable)
        sr == noteRead(s, thenable)
    IN  CASE again.threw ->
                PromiseChainThenableCatch([sr EXCEPT !.exc = again.ex],
                                          chainedPromise)
          [] again.then = "Promise.prototype.then" ->
                PromiseThen(sr, thenable.n,
                            ChainCallback("chainResolved", chainedPromise),
                            ChainCallback("chainRejected", chainedPromise))
          [] OTHER ->
                PromiseChainThenableCatch(
                    PromiseForeignThen(sr, thenable, again.then), chainedPromise)

\* Promise.prototype.chain (lines 165-183); chainedPromise 0 is undefined.
PromiseChain(s, chainedPromise, wasSuccess, args) ==
    IF s.overflow \/ chainedPromise = 0
    THEN s
    ELSE IF wasSuccess /\ Len(args) = 1
         THEN IF isThenable(s, args[1])
              THEN PromiseChainThenable(noteRead(s, args[1]), chainedPromise,
                                        args[1])
              ELSE PromiseComplete(noteRead(s, args[1]), chainedPromise,
                                   wasSuccess, args)
         ELSE PromiseComplete(s, chainedPromise, wasSuccess, args)

\* Promise.prototype.callBack (lines 128-156): a callback that is no function
\* chains at once, a function is called from a timer.
PromiseCallBack(s, this, thenCall) ==
    IF s.overflow
    THEN s
    ELSE LET s0 == [s EXCEPT !.dispatched[thenCall.id] = @ + 1]
             which == IF s.state[this] = "true" THEN "onSuccess" ELSE "onError"
             fn == IF which = "onSuccess"
                   THEN thenCall.onSuccess ELSE thenCall.onError
         IN  IF fn.act = "none"
             THEN PromiseChain(s0, thenCall.chainedPromise,
                               s.state[this] = "true", s.data[this])
             ELSE [s0 EXCEPT !.timers =
                        Append(@, [fn |-> fn, which |-> which,
                                   parentPromise |-> this,
                                   thenCall |-> thenCall])]

\* this.thenCallArray.forEach of complete (lines 231-233), from element i.
PromiseForEachCallBack(s, this, i, n) ==
    IF i > n \/ s.overflow
    THEN s
    ELSE PromiseForEachCallBack(
             PromiseCallBack(s, this, s.thenCallArray[this][i]), this, i + 1, n)

\* Promise.prototype.complete (lines 213-236).
PromiseComplete(s, this, wasSuccess, args) ==
    IF s.overflow \/ s.state[this] # "null"
    THEN s
    ELSE PromiseForEachCallBack(
             [s EXCEPT !.state[this] = IF wasSuccess THEN "true" ELSE "false",
                       !.data[this] = args],
             this, 1, Len(s.thenCallArray[this]))

\* The closures when hands to promise.then (lines 399-414), for the instance
\* myself that when was called on.
WhenCallback(type, myself) ==
    [act |-> type, val |-> [k |-> "when", n |-> myself]]

\* The first closure of when (lines 399-408): resolve() has no argument.
PromiseWhenResolved(s, myself) ==
    LET s1 == [s EXCEPT !.waitingFor[myself] = @ - 1]
    IN  IF s1.waitingFor[myself] = 0
        THEN PromiseComplete(s1, myself, TRUE, << >>)
        ELSE s1

\* The second closure of when (lines 409-414), called with the list args: err
\* is its first argument, undefined when there is none.
PromiseWhenRejected(s, myself, args) ==
    PromiseComplete([s EXCEPT !.waitingFor[myself] = @ - 1], myself, FALSE,
                    << IF Len(args) > 0 THEN args[1] ELSE Undefined >>)

\* What the call of fn in the timer function does (line 150): a closure of
\* chainThenable completes its chainedPromise with the arguments, a closure of
\* when counts down.
PromiseApply(s, fn, args) ==
    IF fn.act \in {"chainResolved", "chainRejected"}
    THEN PromiseComplete(s, fn.val.n, fn.act = "chainResolved", args)
    ELSE IF fn.act = "whenResolved"
    THEN PromiseWhenResolved(s, fn.val.n)
    ELSE IF fn.act = "whenRejected"
    THEN PromiseWhenRejected(s, fn.val.n, args)
    ELSE s

\* The function callBack hands to setTimeout (lines 146-155), for the timer
\* record t.
PromiseTimerBody(s, t) ==
    PromiseChain(
        PromiseApply(
            [s EXCEPT !.calls =
                Append(@, [id |-> t.thenCall.id, which |-> t.which,
                           parent |-> t.parentPromise,
                           arg |-> s.data[t.parentPromise]])],
            t.fn, s.data[t.parentPromise]),
        t.thenCall.chainedPromise,
        t.fn.act # "throw",
        << IF t.fn.act \in {"return", "throw"} THEN t.fn.val ELSE Undefined >>)

\* Promise.prototype.resolve and reject of src/fid-promise.js (lines 304-317):
\* args is the list of their arguments.
PromiseResolve(s, this, args) == PromiseComplete(s, this, TRUE, args)

PromiseReject(s, this, args) == PromiseComplete(s, this, FALSE, args)

\* always that registers through then: it returns the new instance.
PromiseAlwaysDerives(s, this, fn) == PromiseThen(s, this, fn, fn)

\* Promise.prototype.always, error and success of src/fid-promise.js (lines
\* 117-119, 272-274, 325-327); null and a missing argument are NotAFunction.
PromiseAlways(s, this, fn) == PromiseAddCallbacks(s, this, fn, fn, 0)

PromiseError(s, this, fn) == PromiseAddCallbacks(s, this, NotAFunction, fn, 0)

PromiseSuccess(s, this, fn) == PromiseAddCallbacks(s, this, fn, NotAFunction, 0)

\* An array given to when as its first argument.
ArrayOf(elems) == [k |-> "arrayOf", elems |-> elems]

\* The function when hands to args.forEach (lines 394-416), for the element
\* promise: every element is counted, a thenable or not. promise.then(...)
\* (line 399) reads then again, after the read of isThenable, and calls what
\* that read gives; what the read or the call throws leaves when.
PromiseWhenIteration(s, myself, promise) ==
    IF s.overflow
    THEN s
    ELSE LET s1 == [s EXCEPT !.waitingFor[myself] = @ + 1]
             s2 == noteRead(s1, promise)
             again == PromiseReadThen(s2, promise)
             s3 == noteRead(s2, promise)
         IN  CASE ~isThenable(s1, promise) -> s2
               [] again.threw -> [s3 EXCEPT !.exc = again.ex]
               [] again.then = "Promise.prototype.then" ->
                     PromiseThen(s3, promise.n,
                                 WhenCallback("whenResolved", myself),
                                 WhenCallback("whenRejected", myself))
               [] OTHER -> PromiseForeignThen(s3, promise, again.then)

\* args.forEach of when (line 394), from element i: forEach does not call its
\* function for an element that a sparse array does not have, and an exception
\* ends it.
RECURSIVE PromiseWhenForEach(_, _, _, _)
PromiseWhenForEach(s, myself, args, i) ==
    IF i > Len(args) \/ s.overflow \/ s.exc # NoExc
    THEN s
    ELSE IF args[i] = Hole
    THEN PromiseWhenForEach(s, myself, args, i + 1)
    ELSE PromiseWhenForEach(PromiseWhenIteration(s, myself, args[i]),
                            myself, args, i + 1)

\* The end of when without the test of waitingFor: nothing is resolved
\* before when returns.
PromiseWhenEndWaits(s, this) ==
    IF s.overflow \/ s.exc # NoExc
    THEN s
    ELSE [s EXCEPT !.ret = this]

\* The end of when (lines 418-424); an exception that left forEach leaves
\* when before it.
PromiseWhenEnd(s, this) ==
    IF s.overflow \/ s.exc # NoExc
    THEN s
    ELSE [(IF s.waitingFor[this] = 0
           THEN PromiseResolve(s, this, << >>)
           ELSE s) EXCEPT !.ret = this]

\* Promise.prototype.when (lines 383-425), called on this with the list
\* arguments: an array as first argument replaces the list. The call and its
\* local variables are recorded in aggs.
PromiseWhen(s, this, arguments) ==
    IF s.overflow \/ Len(s.aggs) >= MaxAggregates
    THEN [s EXCEPT !.overflow = TRUE]
    ELSE LET args == IF Len(arguments) > 0 /\ arguments[1].k = "arrayOf"
                     THEN arguments[1].elems
                     ELSE arguments
         IN  PromiseWhenEnd(
                 PromiseWhenForEach(
                     [s EXCEPT !.aggs = Append(@, [kind |-> "Promise.when",
                                                   myself |-> this,
                                                   args |-> args])],
                     this, args, 1),
                 this)

(* ------------------------------ actions --------------------------------- *)
\* The step ends with heap r; a step that exceeds a bound of the model is not
\* taken.
Commit(r) ==
    /\ ~r.overflow
    /\ created' = r.created
    /\ state' = r.state
    /\ data' = r.data
    /\ thenCallArray' = r.thenCallArray
    /\ nThenCalls' = r.nThenCalls
    /\ timers' = r.timers
    /\ attached' = r.attached
    /\ calls' = r.calls
    /\ dispatched' = r.dispatched
    /\ uncaught' = r.exc
    /\ aggs' = r.aggs
    /\ members' = r.members
    /\ arrays' = r.arrays
    /\ waitingFor' = r.waitingFor
    /\ reads' = r.reads

\* promise.resolve(value)
Resolve(promise, value) ==
    Commit(complete(Heap, promise, TRUE, value))

\* promise.reject(reason)
Reject(promise, reason) ==
    Commit(complete(Heap, promise, FALSE, reason))

\* promise.then(onSuccess, onError)
Then(promise, onSuccess, onError) ==
    Commit(then(Heap, promise, onSuccess, onError))

\* promise.success(fn)
Success(promise, fn) ==
    Commit(addCallbacks(Heap, promise, fn, NotAFunction, 0))

\* promise.error(fn)
Error(promise, fn) ==
    Commit(addCallbacks(Heap, promise, NotAFunction, fn, 0))

\* promise.always(fn)
Always(promise, fn) ==
    Commit(addCallbacks(Heap, promise, fn, fn, 0))

\* The oldest timer fires.
RunTimer ==
    /\ timers # << >>
    /\ Commit(timerBody([Heap EXCEPT !.timers = Tail(@)], Head(timers)))

\* The foreign thenable of attachTo call a makes its next later call.
ForeignLater(a) ==
    /\ a \in DOMAIN attached
    /\ attached[a].later # << >>
    /\ LET c == Head(attached[a].later)
       IN  Commit(forward([Heap EXCEPT !.attached[a].later = Tail(@)], a, c.cb, c.val))

\* promise.when(promises)
When(promise, promises) ==
    Commit(when(Heap, promise, promises))

\* promise.after(promises)
After(promise, promises) ==
    Commit(after(Heap, promise, promises))

\* The foreign member of forEach iteration c makes its next later call.
ForeignMemberLater(c) ==
    /\ c \in DOMAIN members
    /\ members[c].later # << >>
    /\ LET call == Head(members[c].later)
       IN  Commit(memberCall([Heap EXCEPT !.members[c].later = Tail(@)], c,
                             IF call.cb = "Resolved"
                             THEN "memberResolved" ELSE "memberRejected",
                             call.val))

\* Calls of the operations of src/fid-promise.js by client code.
CallPromiseResolve(promise, args) ==
    Commit(PromiseResolve(Heap, promise, args))

CallPromiseReject(promise, args) ==
    Commit(PromiseReject(Heap, promise, args))

CallPromiseThen(promise, onSuccess, onError) ==
    Commit(PromiseThen(Heap, promise, onSuccess, onError))

CallPromiseAlways(promise, fn) ==
    Commit(PromiseAlways(Heap, promise, fn))

CallPromiseError(promise, fn) ==
    Commit(PromiseError(Heap, promise, fn))

CallPromiseSuccess(promise, fn) ==
    Commit(PromiseSuccess(Heap, promise, fn))

CallPromiseWhen(promise, arguments) ==
    Commit(PromiseWhen(Heap, promise, arguments))

\* The oldest timer of src/fid-promise.js fires.
PromiseRunTimer ==
    /\ timers # << >>
    /\ Commit(PromiseTimerBody([Heap EXCEPT !.timers = Tail(@)], Head(timers)))

(* --------------------------- specifications ----------------------------- *)
\* Client code has constructed one instance: state null, data [], no thenCall.
Init ==
    /\ created = 1
    /\ state = [p \in Promises |-> "null"]
    /\ data = [p \in Promises |-> EmptyArray]
    /\ thenCallArray = [p \in Promises |-> << >>]
    /\ nThenCalls = 0
    /\ timers = << >>
    /\ attached = << >>
    /\ calls = << >>
    /\ dispatched = [i \in 1 .. MaxThenCalls |-> 0]
    /\ uncaught = NoExc
    /\ aggs = << >>
    /\ members = << >>
    /\ arrays = << >>
    /\ waitingFor = [p \in Promises |-> 0]
    /\ reads = [n \in ChangingObjects |-> 0]

Instances == {PromiseRef(p) : p \in Created}

\* Spec: client code settles with values of every kind and registers through
\* every operation; a step is taken while the thenCalls made so far, those of
\* attachTo included, are at most MaxMixedThenCalls.
Within == nThenCalls' <= MaxMixedThenCalls

Next ==
    \/ \E p \in Created,
          v \in {Plain(2), ThrowingThen(1), Foreign(1)} \cup Instances :
             Resolve(p, v) /\ Within
    \/ \E p \in Created : Reject(p, Plain(1)) /\ Within
    \/ \E p \in Created :
          Then(p, Returns(PromiseRef(created + 1)), NotAFunction) /\ Within
    \/ \E p \in Created : Success(p, Returns(Plain(1))) /\ Within
    \/ \E p \in Created : Error(p, Returns(Plain(1))) /\ Within
    \/ \E p \in Created : Always(p, Returns(Plain(1))) /\ Within
    \/ RunTimer /\ Within
    \/ \E a \in 1 .. MaxAttach : ForeignLater(a) /\ Within

Spec == Init /\ [][Next]_vars

\* SpecPlain: client code settles with values that have no then, and registers
\* callbacks that return, throw, or are no functions.
NextPlain ==
    \/ \E p \in Created, v \in {Plain(1), Plain(2)} : Resolve(p, v)
    \/ \E p \in Created : Reject(p, Plain(3))
    \/ \E p \in Created, f \in {NotAFunction, Returns(Plain(1))},
         g \in {NotAFunction, Throws(Exc(1))} : Then(p, f, g)
    \/ \E p \in Created : Success(p, Returns(Plain(1)))
    \/ \E p \in Created : Error(p, Returns(Plain(1)))
    \/ \E p \in Created : Always(p, Returns(Plain(1)))
    \/ RunTimer

SpecPlain == Init /\ [][NextPlain]_vars

\* SpecSiblings: client code settles the instance it constructed with values
\* without then, and registers on it callbacks that return, throw, or return
\* a thenable that never calls back, through then and through always.
NeverSettling == Foreign(10)

SiblingCallbacks ==
    { <<Throws(Exc(1)), Throws(Exc(1))>>,
      <<Returns(NeverSettling), Returns(NeverSettling)>>,
      <<Returns(Plain(2)), NotAFunction>> }

NextSiblings ==
    \/ \E p \in {1} : Resolve(p, Plain(1))
    \/ \E p \in {1} : Reject(p, Plain(3))
    \/ \E p \in {1}, fg \in SiblingCallbacks : Then(p, fg[1], fg[2])
    \/ \E p \in {1}, fn \in {Returns(Plain(1)), Throws(Exc(1))} : Always(p, fn)
    \/ RunTimer

SpecSiblings == Init /\ [][NextSiblings]_vars

\* The task queue is fair: a timer that is set fires (setTimeout, line 138).
FairSpecSiblings == SpecSiblings /\ WF_vars(RunTimer)

\* SpecSugar: client code resolves or rejects the instance it constructed and
\* registers, through success, error and always, functions that return or
\* throw values, instances and foreign thenables, and one function through
\* then.
SugarFunctions ==
    { Returns(Plain(2)), Returns(PromiseRef(1)), Returns(Foreign(2)),
      Throws(Exc(1)), Throws(Foreign(2)) }

NextSugar ==
    \/ Resolve(1, Plain(1))
    \/ Reject(1, Plain(3))
    \/ \E fn \in SugarFunctions : Success(1, fn)
    \/ \E fn \in SugarFunctions : Error(1, fn)
    \/ \E fn \in SugarFunctions : Always(1, fn)
    \/ Then(1, Returns(Plain(2)), Throws(Exc(1)))
    \/ RunTimer

SpecSugar == Init /\ [][NextSugar]_vars

\* SpecGetter: client code resolves and rejects instances with objects whose
\* then is a getter that changes from one read to the next, and with values;
\* a function it registers with then returns such an object.
ChangingThens == {ChangingThen(n) : n \in ChangingObjects}

NextGetter ==
    \/ \E p \in Created, v \in ChangingThens \cup {Plain(2)} : Resolve(p, v)
    \/ \E r \in ChangingThens \cup {Plain(3)} : Reject(1, r)
    \/ \E v \in ChangingThens : Then(1, Returns(v), NotAFunction)
    \/ RunTimer
    \/ \E a \in 1 .. MaxAttach : ForeignLater(a)

SpecGetter == Init /\ [][NextGetter]_vars

\* SpecCycle: client code has constructed two instances; it resolves each with
\* the other, resolves and rejects them with values, registers a function
\* with then, in any order.
InitCycle ==
    /\ created = 2
    /\ state = [p \in Promises |-> "null"]
    /\ data = [p \in Promises |-> EmptyArray]
    /\ thenCallArray = [p \in Promises |-> << >>]
    /\ nThenCalls = 0
    /\ timers = << >>
    /\ attached = << >>
    /\ calls = << >>
    /\ dispatched = [i \in 1 .. MaxThenCalls |-> 0]
    /\ uncaught = NoExc
    /\ aggs = << >>
    /\ members = << >>
    /\ arrays = << >>
    /\ waitingFor = [p \in Promises |-> 0]
    /\ reads = [n \in ChangingObjects |-> 0]

NextCycle ==
    \/ Resolve(1, PromiseRef(2))
    \/ Resolve(2, PromiseRef(1))
    \/ \E p \in {1, 2}, v \in {Plain(1), Plain(2)} : Resolve(p, v)
    \/ \E p \in {1, 2} : Reject(p, Plain(3))
    \/ \E p \in {1, 2} : Then(p, Returns(Plain(2)), NotAFunction)
    \/ RunTimer

SpecCycle == InitCycle /\ [][NextCycle]_vars

\* SpecForeign: client code settles with foreign thenables that call back once,
\* several times, at once or later, or whose then throws, and with values that
\* have no then.
NextForeign ==
    \/ \E p \in Created,
          v \in {Plain(2), Foreign(2), Foreign(3), Foreign(4), Foreign(5),
                 Foreign(6), Foreign(7), Foreign(8)} :
             Resolve(p, v)
    \/ \E p \in Created : Reject(p, Plain(1))
    \/ \E p \in Created : Always(p, Returns(Plain(1)))
    \/ RunTimer
    \/ \E a \in 1 .. MaxAttach : ForeignLater(a)

SpecForeign == Init /\ [][NextForeign]_vars

\* SpecChain: client code resolves the instance it constructed with values
\* that have no then, or rejects it, also with a thenable; it settles no
\* instance that then returned. The callbacks it registers with then return or
\* throw values without then, foreign thenables and the instance itself.
ChainCallbacks ==
    { <<Returns(Plain(2)), Returns(Foreign(1))>>,
      <<Returns(PromiseRef(1)), Returns(Plain(2))>>,
      <<Throws(Exc(1)), NotAFunction>>,
      <<Throws(PromiseRef(1)), NotAFunction>> }

NextChain ==
    \/ \E p \in {1} : Resolve(p, Plain(1))
    \/ \E p \in {1}, r \in {Plain(3), Foreign(1)} : Reject(p, r)
    \/ \E p \in Created, fg \in ChainCallbacks : Then(p, fg[1], fg[2])
    \/ RunTimer
    \/ \E a \in 1 .. MaxAttach : ForeignLater(a)

SpecChain == Init /\ [][NextChain]_vars

\* Client code has constructed the instance it will call when or after on,
\* and MaxMembers instances to pass to it.
InitAggregate ==
    /\ created = 1 + MaxMembers
    /\ state = [p \in Promises |-> "null"]
    /\ data = [p \in Promises |-> EmptyArray]
    /\ thenCallArray = [p \in Promises |-> << >>]
    /\ nThenCalls = 0
    /\ timers = << >>
    /\ attached = << >>
    /\ calls = << >>
    /\ dispatched = [i \in 1 .. MaxThenCalls |-> 0]
    /\ uncaught = NoExc
    /\ aggs = << >>
    /\ members = << >>
    /\ arrays = << >>
    /\ waitingFor = [p \in Promises |-> 0]
    /\ reads = [n \in ChangingObjects |-> 0]

\* The instances constructed for when and after, and the array of all of them.
MemberInstances == 2 .. (1 + MaxMembers)
AllMembers == [i \in 1 .. MaxMembers |-> PromiseRef(i + 1)]

\* The arrays client code passes to when and after: empty, the member
\* instances, a member instance after a foreign thenable that calls back
\* before it returns or later.
Collections ==
    { << >>, AllMembers,
      << Foreign(9), PromiseRef(2) >>, << Foreign(1), PromiseRef(2) >> }

\* SpecAggregate: client code calls when or after on instance 1 and settles
\* the member instances; it makes no resolve or reject call on instance 1.
NextAggregate ==
    \/ \E c \in Collections : When(1, c)
    \/ \E c \in Collections : After(1, c)
    \/ \E p \in MemberInstances, v \in {Plain(1), Plain(2), Undefined} :
          Resolve(p, v)
    \/ \E p \in MemberInstances, r \in {Plain(3), Plain(4)} : Reject(p, r)
    \/ RunTimer
    \/ \E c \in 1 .. MaxMembers : ForeignMemberLater(c)

SpecAggregate == InitAggregate /\ [][NextAggregate]_vars

\* SpecOnce: client code resolves the instance once, with a foreign thenable,
\* and makes no other resolve or reject call on it.
NoSettleCall(p) ==
    /\ state[p] = "null"
    /\ \A a \in DOMAIN attached : attached[a].promise # p

NextOnce ==
    \/ \E p \in Created,
          v \in {Foreign(1), Foreign(2), Foreign(3), Foreign(4), Foreign(6)} :
             NoSettleCall(p) /\ Resolve(p, v)
    \/ \E p \in Created : Success(p, Returns(Plain(1)))
    \/ \E p \in Created : Error(p, Returns(Plain(1)))
    \/ \E p \in Created : Always(p, Returns(Plain(1)))
    \/ RunTimer
    \/ \E a \in 1 .. MaxAttach : ForeignLater(a)

SpecOnce == Init /\ [][NextOnce]_vars

\* The task queue and the foreign thenables are fair: a timer that is set
\* fires, a call a thenable has to make is made.
FairSpecOnce ==
    /\ SpecOnce
    /\ WF_vars(RunTimer)
    /\ \A a \in 1 .. MaxAttach : WF_vars(ForeignLater(a))

\* SpecLegacy: the library of src/fid-promise.js. Client code has constructed
\* one instance (lines 63-78: state null, data [], no thenCall); it settles
\* instances with no argument, a value or the first instance, and registers
\* through every operation.
InitLegacy ==
    /\ created = 1
    /\ state = [p \in Promises |-> "null"]
    /\ data = [p \in Promises |-> << >>]
    /\ thenCallArray = [p \in Promises |-> << >>]
    /\ nThenCalls = 0
    /\ timers = << >>
    /\ attached = << >>
    /\ calls = << >>
    /\ dispatched = [i \in 1 .. MaxThenCalls |-> 0]
    /\ uncaught = NoExc
    /\ aggs = << >>
    /\ members = << >>
    /\ arrays = << >>
    /\ waitingFor = [p \in Promises |-> 0]
    /\ reads = [n \in ChangingObjects |-> 0]

LegacyCallbacks ==
    { <<Returns(Plain(2)), NotAFunction>>,
      <<Returns(PromiseRef(1)), Throws(Exc(1))>>,
      <<NotAFunction, NotAFunction>> }

NextLegacy ==
    \/ \E p \in Created, args \in {<< >>, <<Plain(1)>>, <<PromiseRef(1)>>} :
          CallPromiseResolve(p, args)
    \/ \E p \in Created : CallPromiseReject(p, <<Plain(3)>>)
    \/ \E p \in Created, fg \in LegacyCallbacks : CallPromiseThen(p, fg[1], fg[2])
    \/ \E p \in Created : CallPromiseAlways(p, Returns(Plain(1)))
    \/ \E p \in Created : CallPromiseError(p, Returns(Plain(1)))
    \/ \E p \in Created : CallPromiseSuccess(p, Returns(Plain(1)))
    \/ PromiseRunTimer

SpecLegacy == InitLegacy /\ [][NextLegacy]_vars

\* SpecLegacyWhen: when of src/fid-promise.js. Client code has constructed the
\* first instance and MaxMembers more; it calls when on the first with lists
\* of the others and of values, with and without the array, and settles the
\* others.
InitLegacyWhen ==
    /\ created = 1 + MaxMembers
    /\ state = [p \in Promises |-> "null"]
    /\ data = [p \in Promises |-> << >>]
    /\ thenCallArray = [p \in Promises |-> << >>]
    /\ nThenCalls = 0
    /\ timers = << >>
    /\ attached = << >>
    /\ calls = << >>
    /\ dispatched = [i \in 1 .. MaxThenCalls |-> 0]
    /\ uncaught = NoExc
    /\ aggs = << >>
    /\ members = << >>
    /\ arrays = << >>
    /\ waitingFor = [p \in Promises |-> 0]
    /\ reads = [n \in ChangingObjects |-> 0]

LegacyMembers == 2 .. (1 + MaxMembers)

LegacyLists ==
    { << >>,
      << PromiseRef(2) >>,
      << PromiseRef(2), PromiseRef(3) >>,
      << PromiseRef(3), PromiseRef(2) >>,
      << Plain(1), PromiseRef(2) >>,
      << Plain(1) >> }

\* Sparse arrays: [ , ] and [ , p2 ].
LegacySparse ==
    { << Hole >>,
      << Hole, PromiseRef(2) >> }

LegacyArguments ==
    LegacyLists \cup { << ArrayOf(l) >> : l \in LegacyLists \cup LegacySparse }

NextLegacyWhen ==
    \/ \E a \in LegacyArguments : CallPromiseWhen(1, a)
    \/ \E p \in LegacyMembers, args \in {<< >>, <<Plain(1)>>} :
          CallPromiseResolve(p, args)
    \/ \E p \in LegacyMembers, args \in {<< >>, <<Plain(3)>>} :
          CallPromiseReject(p, args)
    \/ PromiseRunTimer

SpecLegacyWhen == InitLegacyWhen /\ [][NextLegacyWhen]_vars

(* ------------------------------ properties ------------------------------ *)
\* Values without a then property.
NonThenables == {Plain(1), Plain(2), Plain(3), Undefined, EmptyArray, TypeErr, Exc(1)}

\* The number of times a callback of thenCall id was called.
CallCount(id) == Cardinality({i \in DOMAIN calls : calls[i].id = id})

\* The value that data d is in a state with the arrays arrs: for the reference
\* to a result array of when or after, the elements that array has.
ValueOf(d, arrs) ==
    IF d.k = "arrayRef" THEN [k |-> "array", elems |-> arrs[d.n]] ELSE d

\* C1: once the state of an instance is not null, no step changes its state
\* or its data: the field data is not assigned again, and the value it holds
\* stays what it was.
C1_WriteOnce ==
    [][\A p \in Promises :
          state[p] # "null" =>
              /\ state'[p] = state[p]
              /\ data'[p] = data[p]
              /\ ValueOf(data'[p], arrays') = ValueOf(data[p], arrays)]_vars

\* What the code does: the fields state and data of a settled instance are
\* never assigned again.
SettledFieldsKept ==
    [][\A p \in Promises :
          state[p] # "null" => state'[p] = state[p] /\ data'[p] = data[p]]_vars

\* A settled instance on which a later settlement was attempted: the thenable
\* it had adopted forwarded Plain(1) after a direct resolve(Plain(2)).
SettledThenAttempted ==
    \E a \in DOMAIN attached :
        /\ attached[a].other = Foreign(1)
        /\ attached[a].wasCalled
        /\ attached[a].later = << >>
        /\ state[attached[a].promise] = "true"
        /\ data[attached[a].promise] = Plain(2)

\* The instance of when on a thenable that calls back before its then
\* returns and on instance 2: it was fulfilled with the result array during
\* the call, when the array had one element, and the closure of instance 2
\* has since pushed a second one.
SettledArrayGrew ==
    \E g \in DOMAIN aggs :
        /\ aggs[g].kind = "when"
        /\ aggs[g].promises = << Foreign(9), PromiseRef(2) >>
        /\ state[aggs[g].myself] = "true"
        /\ data[aggs[g].myself] = ArrayRef(aggs[g].successResults)
        /\ Len(arrays[aggs[g].successResults]) = 2

\* The position of thenCall id in the thenCallArray of instance p.
PositionOf(p, id) ==
    CHOOSE k \in DOMAIN thenCallArray[p] : thenCallArray[p][k].id = id

\* C2: a resolve or reject call with a value that has no then and is not the
\* instance sets the state and data of a pending instance to the call's kind
\* and value and leaves those of a settled instance as the first call set
\* them; every callback that was called was the one of the kind of the
\* instance's state and got the instance's data.
C2_FirstCallWins ==
    /\ \A p \in Created, w \in BOOLEAN, v \in NonThenables :
          LET r == complete(Heap, p, w, v)
          IN  IF state[p] = "null"
              THEN /\ r.state[p] = (IF w THEN "true" ELSE "false")
                   /\ r.data[p] = v
              ELSE /\ r.state[p] = state[p]
                   /\ r.data[p] = data[p]
    /\ \A i \in DOMAIN calls :
          /\ state[calls[i].parent] # "null"
          /\ calls[i].which = "onSuccess" <=> state[calls[i].parent] = "true"
          /\ calls[i].arg = data[calls[i].parent]

\* The instance was rejected with Plain(3), which was the first call, and its
\* onError callback was called with it.
C2_Witness ==
    \E i \in DOMAIN calls :
        /\ calls[i].parent = 1
        /\ calls[i].which = "onError"
        /\ calls[i].arg = Plain(3)
        /\ state[1] = "false"

\* C4: a callback is called only by the step in which the oldest timer fires,
\* which is never the step that registered it or settled its instance: the
\* call of that step is the one the timer was set for, with the data the
\* instance has.
C4_DeferredDispatch ==
    [][calls' # calls =>
          /\ timers # << >>
          /\ calls' = Append(calls,
                 [id |-> Head(timers).thenCall.id,
                  which |-> Head(timers).which,
                  parent |-> Head(timers).parentPromise,
                  arg |-> data[Head(timers).parentPromise]])
          /\ Len(timers') >= Len(timers) - 1
          /\ \A k \in 1 .. (Len(timers) - 1) : timers'[k] = timers[k + 1]]_vars

\* A callback registered on a settled instance waits in a timer: nothing of
\* its thenCall was called yet.
C4_Witness ==
    \E k \in DOMAIN timers :
        /\ state[timers[k].parentPromise] # "null"
        /\ dispatched[timers[k].thenCall.id] = 1
        /\ CallCount(timers[k].thenCall.id) = 0
        /\ calls # << >>

\* C5: the callbacks called for one instance were called in the order of
\* their thenCalls in its thenCallArray.
C5_RegistrationOrder ==
    \A i, j \in DOMAIN calls :
        (i < j /\ calls[i].parent = calls[j].parent)
            => PositionOf(calls[i].parent, calls[i].id)
                   < PositionOf(calls[j].parent, calls[j].id)

\* Two callbacks of one instance were called.
C5_Witness ==
    \E i, j \in DOMAIN calls :
        /\ i < j
        /\ calls[i].parent = calls[j].parent
        /\ calls[i].which = calls[j].which

\* C6: callNext ran once for every thenCall of a settled instance and for no
\* thenCall of a pending one; at most one callback of a thenCall was called,
\* once; when no timer is left, the callback of the kind of the state was
\* called if it is a function, and otherwise nextPromise is settled.
C6_DispatchedOnce ==
    \A p \in Created : \A k \in DOMAIN thenCallArray[p] :
        LET tc == thenCallArray[p][k]
            fn == IF state[p] = "true" THEN tc.onSuccess ELSE tc.onError
        IN  /\ dispatched[tc.id] = (IF state[p] = "null" THEN 0 ELSE 1)
            /\ CallCount(tc.id) <= dispatched[tc.id]
            /\ (state[p] # "null" /\ timers = << >>) =>
                  IF fn.act # "none"
                  THEN CallCount(tc.id) = 1
                  ELSE /\ CallCount(tc.id) = 0
                       /\ tc.nextPromise # 0 => state[tc.nextPromise] # "null"

\* No timer is left, and of two thenCalls of a settled instance one had its
\* callback called and the other passed the outcome on.
C6_Witness ==
    /\ timers = << >>
    /\ \E p \in Created : \E k1, k2 \in DOMAIN thenCallArray[p] :
          /\ state[p] # "null"
          /\ CallCount(thenCallArray[p][k1].id) = 1
          /\ CallCount(thenCallArray[p][k2].id) = 0
          /\ thenCallArray[p][k2].nextPromise # 0
          /\ state[thenCallArray[p][k2].nextPromise] = state[p]

\* C3: while the thenable that a pending instance was resolved with has not
\* called back, the instance is pending: no direct resolve or reject call
\* settled it.
C3_ThenableLocksIn ==
    \A a \in DOMAIN attached :
        ~attached[a].wasCalled => state[attached[a].promise] = "null"

\* C7: resolve or reject of a pending instance with itself rejects it with
\* the TypeError, throws nothing, registers nothing on it and attaches it to
\* nothing; so does the timer of a callback that returns its own nextPromise;
\* no instance was ever attached to itself.
C7_SelfRejects ==
    /\ \A p \in Created, w \in BOOLEAN :
          state[p] = "null" =>
              LET r == complete(Heap, p, w, PromiseRef(p))
              IN  /\ ~r.overflow
                  /\ r.state[p] = "false"
                  /\ r.data[p] = TypeErr
                  /\ r.exc = NoExc
                  /\ r.thenCallArray[p] = thenCallArray[p]
                  /\ r.attached = attached
    /\ timers # << >> =>
          LET t == Head(timers)
              next == t.thenCall.nextPromise
          IN  (next # 0 /\ t.fn = Returns(PromiseRef(next)) /\ state[next] = "null")
                  => LET r == timerBody([Heap EXCEPT !.timers = Tail(@)], t)
                     IN  /\ ~r.overflow
                         /\ r.state[next] = "false"
                         /\ r.data[next] = TypeErr
                         /\ r.exc = NoExc
                         /\ r.thenCallArray[next] = thenCallArray[next]
                         /\ r.attached = attached
    /\ \A a \in DOMAIN attached :
          attached[a].other # PromiseRef(attached[a].promise)

\* A callback that returned its own nextPromise was called, and nextPromise
\* is rejected with the TypeError.
C7_Witness ==
    \E i \in DOMAIN calls : \E k \in DOMAIN thenCallArray[calls[i].parent] :
        LET tc == thenCallArray[calls[i].parent][k]
        IN  /\ tc.id = calls[i].id
            /\ calls[i].which = "onSuccess"
            /\ tc.onSuccess = Returns(PromiseRef(tc.nextPromise))
            /\ state[tc.nextPromise] = "false"
            /\ data[tc.nextPromise] = TypeErr

\* C10: resolve or reject of a pending instance with a value whose then
\* getter throws rejects it with what the getter threw, throws nothing and
\* attaches it to nothing.
C10_GetterThrowRejects ==
    \A p \in Created, w \in BOOLEAN :
        state[p] = "null" =>
            LET r == complete(Heap, p, w, ThrowingThen(1))
            IN  /\ ~r.overflow
                /\ r.state[p] = "false"
                /\ r.data[p] = GetterThrows(1)
                /\ r.exc = NoExc
                /\ r.attached = attached

\* An instance that was resolved with such a value is rejected with what the
\* getter threw, and nothing was thrown to the caller.
C10_Witness ==
    \E p \in Created :
        /\ state[p] = "false"
        /\ data[p] = GetterThrows(1)
        /\ attached = << >>
        /\ uncaught = NoExc

\* All the calls the then of Foreign(f) makes, in order.
ForeignScript(f) == ForeignThen(f).sync \o ForeignThen(f).later

\* The number of calls the thenable of the attached record rec has made.
CallsMade(rec) == Len(ForeignScript(rec.other.n)) - Len(rec.later)

\* No timer is set and no thenable has a call left to make.
Quiescent ==
    /\ timers = << >>
    /\ \A a \in DOMAIN attached : attached[a].later = << >>

\* The outcome of adopting Foreign(f) according to C8: rejected with r if its
\* first call is the second callback with r, fulfilled with v if it is the
\* first callback with v, through the chain of nested thenables.
RECURSIVE ClaimedOutcome(_)
ClaimedOutcome(f) ==
    LET c == ForeignScript(f)[1]
    IN  IF c.cb = "Rejected"
        THEN [state |-> "false", data |-> c.val]
        ELSE IF c.val.k = "foreign"
             THEN ClaimedOutcome(c.val.n)
             ELSE [state |-> "true", data |-> c.val]

\* The attached record a is the one of the resolve call on its instance.
FirstAttach(a) ==
    /\ attached[a].other.k = "foreign"
    /\ \A b \in 1 .. (a - 1) : attached[b].promise # attached[a].promise

\* C8: when all timers have fired and all thenables have made their calls,
\* an instance that was resolved with a thenable, and on which no other
\* resolve or reject call was made, is fulfilled with the value the thenable
\* (or the chain of thenables) passed to its first callback, or rejected
\* with the reason it passed to its second callback.
C8_AdoptedOutcome ==
    Quiescent =>
        \A a \in DOMAIN attached :
            FirstAttach(a) =>
                /\ state[attached[a].promise] = ClaimedOutcome(attached[a].other.n).state
                /\ data[attached[a].promise] = ClaimedOutcome(attached[a].other.n).data

\* C8 for thenables that pass no thenable to their second callback: the
\* instance ends with the claimed outcome.
AdoptedOutcomeOfPlainReasons ==
    Quiescent =>
        \A a \in DOMAIN attached :
            (FirstAttach(a) /\ attached[a].other # Foreign(6)) =>
                /\ state[attached[a].promise] = ClaimedOutcome(attached[a].other.n).state
                /\ data[attached[a].promise] = ClaimedOutcome(attached[a].other.n).data

\* Under fairness every instance resolved with a thenable is settled in the
\* end.
AdoptionSettles ==
    \A p \in Promises :
        (\E a \in DOMAIN attached : attached[a].promise = p) ~> (state[p] # "null")

\* C9: in an attachTo call on a foreign thenable, the step of the first call
\* of a callback gives a pending instance the outcome of that call (its kind
\* and value if the value has no then; if the first callback got a thenable,
\* the instance is left pending and attached to it), whatever calls follow in
\* the same step; a step with a later call changes nothing but the list of
\* calls the thenable has left.
C9_FirstForwardOnly ==
    [][\A a \in DOMAIN attached' :
          attached'[a].other.k = "foreign" =>
              LET new == attached'[a]
                  p == new.promise
                  c == ForeignScript(new.other.n)[1]
                  old == a \in DOMAIN attached
                  before == IF old THEN CallsMade(attached[a]) ELSE 0
              IN  /\ (before = 0 /\ CallsMade(new) > 0 /\ state[p] = "null"
                         /\ (old => ~attached[a].wasCalled)) =>
                        /\ new.wasCalled
                        /\ getThen(Heap, c.val).then = "null" =>
                              /\ state'[p] = (IF c.cb = "Resolved" THEN "true" ELSE "false")
                              /\ data'[p] = c.val
                        /\ (getThen(Heap, c.val).then # "null" /\ c.cb = "Resolved") =>
                              /\ state'[p] = "null"
                              /\ \E b \in DOMAIN attached' :
                                    /\ b \notin DOMAIN attached
                                    /\ attached'[b].promise = p
                                    /\ attached'[b].other = c.val
                  /\ (before > 0 /\ CallsMade(new) > before) =>
                        /\ attached' = [attached EXCEPT ![a].later = Tail(@)]
                        /\ UNCHANGED <<created, state, data, thenCallArray,
                                       nThenCalls, timers, calls, dispatched>>]_vars

\* The thenable called the first callback with a thenable that has not called
\* back, then the second callback: the instance is pending, attached to the
\* thenable it was first given.
C9_Witness ==
    \E a, b \in DOMAIN attached :
        /\ attached[a].other = Foreign(4)
        /\ attached[a].later = << >>
        /\ attached[b].promise = attached[a].promise
        /\ attached[b].other = Foreign(1)
        /\ ~attached[b].wasCalled
        /\ state[attached[a].promise] = "null"

C12_PassThrough ==
    [][\A p \in 1 .. created' : \A k \in DOMAIN thenCallArray'[p] :
          LET tc == thenCallArray'[p][k]
              next == tc.nextPromise
              fn == IF state'[p] = "true" THEN tc.onSuccess ELSE tc.onError
          IN  (next # 0 /\ state'[p] # "null" /\ fn = NotAFunction) =>
                  /\ \A i \in DOMAIN calls' : calls'[i].id # tc.id
                  /\ (dispatched[tc.id] = 0 /\ (next > created \/ state[next] = "null"))
                        => /\ state'[next] = state'[p]
                           /\ data'[next] = data'[p]]_vars

\* p.then(undefined, g) with g a function: p is fulfilled, the instance then
\* returned is fulfilled with the same value, g was not called.
C12_Witness ==
    \E p \in Created : \E k \in DOMAIN thenCallArray[p] :
        LET tc == thenCallArray[p][k]
        IN  /\ tc.onSuccess = NotAFunction
            /\ tc.onError = Throws(Exc(1))
            /\ tc.nextPromise # 0
            /\ state[p] = "true"
            /\ state[tc.nextPromise] = "true"
            /\ data[tc.nextPromise] = data[p]
            /\ CallCount(tc.id) = 0
            /\ timers = << >>

\* The thenCall with number id.
ThenCallById(id) ==
    CHOOSE tc \in UNION {{thenCallArray[p][k] : k \in DOMAIN thenCallArray[p]} :
                            p \in Created} : tc.id = id

\* The callback of thenCall tc that callNext chooses for a parent in state st.
Selected(tc, st) == IF st = "true" THEN tc.onSuccess ELSE tc.onError

\* C13 (the step of the call): when the timer of a callback of then fires and
\* the callback, onSuccess or onError, returns a value without then,
\* nextPromise, pending until then, is fulfilled with that value; when it
\* returns a thenable, nextPromise is not fulfilled with the thenable but
\* attached to it.
ReturnSettlesNext ==
    (timers # << >> /\ Head(timers).fn.act = "return"
        /\ Head(timers).thenCall.nextPromise # 0)
    => LET fn == Head(timers).fn
           next == Head(timers).thenCall.nextPromise
       IN  /\ state[next] = "null"
           /\ (calls' # calls) =>
                 IF getThen(Heap, fn.val).then = "null"
                 THEN /\ state'[next] = "true"
                      /\ data'[next] = fn.val
                 ELSE /\ ~(state'[next] = "true" /\ data'[next] = fn.val)
                      /\ \E b \in DOMAIN attached' :
                            /\ b \notin DOMAIN attached
                            /\ attached'[b].promise = next
                            /\ attached'[b].other = fn.val

\* C13 (the outcome): when no timer and no call of a thenable is left, a
\* nextPromise whose callback returned a settled instance has the state and
\* data of that instance, and one whose callback returned Foreign(1) is
\* fulfilled with the value Foreign(1) passed to its first callback.
ReturnedThenableAdopted ==
    Quiescent =>
        \A a \in DOMAIN attached : \A i \in DOMAIN calls :
            LET next == attached[a].promise
                other == attached[a].other
                tc == ThenCallById(calls[i].id)
            IN  (tc.nextPromise = next
                    /\ Selected(tc, state[calls[i].parent]) = Returns(other))
                => /\ other = Foreign(1) =>
                         state[next] = "true" /\ data[next] = Plain(1)
                   /\ (other.k = "promise" /\ state[other.n] # "null") =>
                         state[next] = state[other.n] /\ data[next] = data[other.n]

\* C13: a callback of then that returns a value without then fulfils
\* nextPromise with it; one that returns a thenable makes nextPromise adopt
\* the outcome of the thenable.
C13_ReturnValue ==
    [][ReturnSettlesNext /\ ReturnedThenableAdopted']_vars

\* An onError callback returned a thenable: nextPromise is fulfilled with the
\* value of the thenable, its parent is rejected.
C13_Witness ==
    \E i \in DOMAIN calls :
        LET tc == ThenCallById(calls[i].id)
        IN  /\ calls[i].which = "onError"
            /\ tc.onError = Returns(Foreign(1))
            /\ state[calls[i].parent] = "false"
            /\ state[tc.nextPromise] = "true"
            /\ data[tc.nextPromise] = Plain(1)

\* C14: once a callback of then that throws e was called, nextPromise is
\* rejected with e.
C14_ThrowRejects ==
    \A i \in DOMAIN calls :
        LET tc == ThenCallById(calls[i].id)
            fn == Selected(tc, state[calls[i].parent])
        IN  (fn.act = "throw" /\ tc.nextPromise # 0) =>
                /\ state[tc.nextPromise] = "false"
                /\ data[tc.nextPromise] = fn.val

\* C14 for thrown values without then.
ThrowOfPlainRejects ==
    \A i \in DOMAIN calls :
        LET tc == ThenCallById(calls[i].id)
            fn == Selected(tc, state[calls[i].parent])
        IN  (fn.act = "throw" /\ tc.nextPromise # 0 /\ getThen(Heap, fn.val).then = "null") =>
                /\ state[tc.nextPromise] = "false"
                /\ data[tc.nextPromise] = fn.val

\* C15: reject starts no adoption: the instance that client code resolves
\* only with values without then, and rejects also with thenables, is never
\* attached to anything, and when it is rejected its data has no then.
C15_RejectNeverAdopts ==
    /\ \A a \in DOMAIN attached : attached[a].promise # 1
    /\ state[1] = "true" => data[1] = Plain(1)

(* ------------------------- properties of when and after ----------------- *)
\* Every element of the array of the g-th when or after call is an instance of
\* the library.
LibraryOnly(g) ==
    \A i \in DOMAIN aggs[g].promises : aggs[g].promises[i].k = "promise"

\* No other when or after call was made on the instance of the g-th.
OnlyAggregate(g) ==
    \A h \in DOMAIN aggs : aggs[h].myself = aggs[g].myself => h = g

\* The forEach iteration whose closure the i-th call of a callback called; 0
\* when the callback was no closure of when or after.
MemberOfCall(i) ==
    LET tc == ThenCallById(calls[i].id)
    IN  IF tc.onSuccess.act = "memberResolved" THEN tc.onSuccess.val.n ELSE 0

\* The calls, by their number, of the closures of the g-th when or after call
\* that timers have made: all of them, and those of the second closure.
MemberCalls(g) ==
    {i \in DOMAIN calls : MemberOfCall(i) # 0 /\ members[MemberOfCall(i)].agg = g}

RejectionCalls(g) == {i \in MemberCalls(g) : calls[i].which = "onError"}

\* The least element of a non-empty set of numbers.
Least(S) == CHOOSE i \in S : \A j \in S : i <= j

\* C16: when on library instances: once the second closure was called for a
\* member, the instance of when is rejected with the reason of the first such
\* call, whatever calls for other members were made after it.
C16_FailFast ==
    \A g \in DOMAIN aggs :
        (/\ aggs[g].kind = "when"
         /\ LibraryOnly(g)
         /\ OnlyAggregate(g)
         /\ RejectionCalls(g) # {})
        => /\ state[aggs[g].myself] = "false"
           /\ data[aggs[g].myself] = calls[Least(RejectionCalls(g))].arg

\* A member rejected, and after its closure was called the closure of another
\* member was called with another value: the instance of when is rejected
\* with the first reason.
C16_Witness ==
    \E g \in DOMAIN aggs :
        /\ aggs[g].kind = "when"
        /\ LibraryOnly(g)
        /\ OnlyAggregate(g)
        /\ RejectionCalls(g) # {}
        /\ \E j \in MemberCalls(g) :
              /\ j > Least(RejectionCalls(g))
              /\ calls[j].arg # calls[Least(RejectionCalls(g))].arg
        /\ state[aggs[g].myself] = "false"
        /\ data[aggs[g].myself] = calls[Least(RejectionCalls(g))].arg

\* The closure of every member of the g-th call was called, the first closure
\* each time, with a value that is not undefined.
AllFulfilled(g) ==
    /\ Cardinality(MemberCalls(g)) = Len(aggs[g].promises)
    /\ \A i \in MemberCalls(g) :
          calls[i].which = "onSuccess" /\ calls[i].arg # Undefined

\* The values of the members of the g-th call in the order of the array that
\* was passed, and in the order in which the closures were called.
RECURSIVE ArgsOf(_, _)
ArgsOf(S, n) ==
    IF n = 0 \/ S = {}
    THEN << >>
    ELSE <<calls[Least(S)].arg>> \o ArgsOf(S \ {Least(S)}, n - 1)

InInputOrder(g) ==
    [i \in DOMAIN aggs[g].promises |-> data[aggs[g].promises[i].n]]

InArrivalOrder(g) == ArgsOf(MemberCalls(g), Len(aggs[g].promises))

\* C17: when every member of a when call on library instances has fulfilled,
\* the instance of when is fulfilled with an array of the members' values in
\* the order of the members in the array that was passed.
C17_InputOrder ==
    \A g \in DOMAIN aggs :
        (/\ aggs[g].kind = "when"
         /\ LibraryOnly(g)
         /\ OnlyAggregate(g)
         /\ aggs[g].promises # << >>
         /\ AllFulfilled(g))
        => /\ state[aggs[g].myself] = "true"
           /\ data[aggs[g].myself].k = "arrayRef"
           /\ arrays[data[aggs[g].myself].n] = InInputOrder(g)

\* What when does: the values are in the order in which the members'
\* closures were called.
WhenArrivalOrder ==
    \A g \in DOMAIN aggs :
        (/\ aggs[g].kind = "when"
         /\ LibraryOnly(g)
         /\ OnlyAggregate(g)
         /\ aggs[g].promises # << >>
         /\ AllFulfilled(g))
        => /\ state[aggs[g].myself] = "true"
           /\ data[aggs[g].myself].k = "arrayRef"
           /\ arrays[data[aggs[g].myself].n] = InArrivalOrder(g)

\* All members of a when call fulfilled, in another order than that of the
\* array.
WhenOutOfOrder ==
    \E g \in DOMAIN aggs :
        /\ aggs[g].kind = "when"
        /\ LibraryOnly(g)
        /\ OnlyAggregate(g)
        /\ aggs[g].promises # << >>
        /\ AllFulfilled(g)
        /\ InArrivalOrder(g) # InInputOrder(g)

\* C18: when and after called with an empty array fulfil their instance with
\* an empty array.
C18_EmptyCollection ==
    \A g \in DOMAIN aggs :
        (aggs[g].promises = << >> /\ OnlyAggregate(g))
        => /\ state[aggs[g].myself] = "true"
           /\ data[aggs[g].myself].k = "arrayRef"
           /\ arrays[data[aggs[g].myself].n] = << >>

\* C18 for after alone.
AfterEmptyCollection ==
    \A g \in DOMAIN aggs :
        (aggs[g].kind = "after" /\ aggs[g].promises = << >> /\ OnlyAggregate(g))
        => /\ state[aggs[g].myself] = "true"
           /\ data[aggs[g].myself].k = "arrayRef"
           /\ arrays[data[aggs[g].myself].n] = << >>

\* What when does with an empty array: it fulfils its instance with undefined.
WhenEmptyCollection ==
    \A g \in DOMAIN aggs :
        (aggs[g].kind = "when" /\ aggs[g].promises = << >> /\ OnlyAggregate(g))
        => /\ state[aggs[g].myself] = "true"
           /\ data[aggs[g].myself] = Undefined

\* after was called with an empty array.
AfterEmptyCalled ==
    \E g \in DOMAIN aggs :
        aggs[g].kind = "after" /\ aggs[g].promises = << >> /\ OnlyAggregate(g)

\* when was called with an empty array.
WhenEmptyCalled ==
    \E g \in DOMAIN aggs :
        aggs[g].kind = "when" /\ aggs[g].promises = << >> /\ OnlyAggregate(g)

\* The forEach iterations of the g-th when or after call.
MembersOf(g) == {c \in DOMAIN members : members[c].agg = g}

\* The call of a closure of iteration c by a timer, for a member that is a
\* library instance; 0 while there is none.
CallOfMember(c) ==
    IF \E i \in DOMAIN calls : MemberOfCall(i) = c
    THEN CHOOSE i \in DOMAIN calls : MemberOfCall(i) = c
    ELSE 0

\* The member of iteration c has delivered its outcome: a library instance
\* through a timer, a foreign thenable by its call of a closure.
Delivered(c) ==
    IF members[c].other.k = "promise"
    THEN CallOfMember(c) # 0
    ELSE members[c].later = << >>

\* Every element of the array of the g-th call has delivered its outcome.
AllDelivered(g) ==
    /\ Cardinality(MembersOf(g)) = Len(aggs[g].promises)
    /\ \A c \in MembersOf(g) : Delivered(c)

\* The outcome the member of iteration c delivered.
OutcomeOf(c) ==
    IF members[c].other.k = "promise"
    THEN [cb |-> IF calls[CallOfMember(c)].which = "onSuccess"
                 THEN "Resolved" ELSE "Rejected",
          val |-> calls[CallOfMember(c)].arg]
    ELSE Head(ForeignScript(members[c].other.n))

\* An array without the elements at its end that were never assigned.
RECURSIVE Trimmed(_)
Trimmed(array) ==
    IF array # << >> /\ array[Len(array)] = Hole
    THEN Trimmed(SubSeq(array, 1, Len(array) - 1))
    ELSE array

\* The values of the members of the g-th call at the members' positions in
\* the array that was passed; a member that fulfilled with undefined leaves
\* its position unassigned.
ValuesInInputOrder(g) ==
    Trimmed([i \in DOMAIN aggs[g].promises |->
                LET c == CHOOSE c \in MembersOf(g) : members[c].index = i - 1
                IN  IF OutcomeOf(c).val = Undefined THEN Hole ELSE OutcomeOf(c).val])

\* The outcome of the g-th call, an after call all of whose members have
\* delivered, as C19 states it: rejected with the reasons in the order of
\* their arrival if a member rejected, else fulfilled with the values in the
\* order of the array.
AfterOutcomeAsStated(g) ==
    IF \E c \in MembersOf(g) : OutcomeOf(c).cb = "Rejected"
    THEN /\ state[aggs[g].myself] = "false"
         /\ data[aggs[g].myself].k = "arrayRef"
         /\ arrays[data[aggs[g].myself].n] =
               ArgsOf(RejectionCalls(g), Cardinality(RejectionCalls(g)))
    ELSE /\ state[aggs[g].myself] = "true"
         /\ data[aggs[g].myself].k = "arrayRef"
         /\ arrays[data[aggs[g].myself].n] = ValuesInInputOrder(g)

\* C19: once every thenable member of an after call has delivered its
\* outcome, the instance of after is rejected with all the reasons, in the
\* order of their arrival, if a member rejected, and else fulfilled with the
\* members' values in the order of the array.
C19_AfterOutcome ==
    \A g \in DOMAIN aggs :
        (aggs[g].kind = "after" /\ OnlyAggregate(g) /\ AllDelivered(g))
        => AfterOutcomeAsStated(g)

\* C19 for arrays of library instances.
AfterOutcomeOfInstances ==
    \A g \in DOMAIN aggs :
        (aggs[g].kind = "after" /\ OnlyAggregate(g) /\ LibraryOnly(g)
            /\ AllDelivered(g))
        => AfterOutcomeAsStated(g)

\* C19 for arrays without a thenable that calls a closure before its then
\* returns.
AfterOutcomeOfLaterCallers ==
    \A g \in DOMAIN aggs :
        (aggs[g].kind = "after" /\ OnlyAggregate(g) /\ AllDelivered(g)
            /\ \A c \in MembersOf(g) :
                  members[c].other.k = "foreign"
                      => ForeignThen(members[c].other.n).sync = << >>)
        => AfterOutcomeAsStated(g)

\* All members of an after call on library instances rejected, with different
\* reasons.
AfterAllRejected ==
    \E g \in DOMAIN aggs :
        /\ aggs[g].kind = "after" /\ OnlyAggregate(g) /\ LibraryOnly(g)
        /\ aggs[g].promises # << >>
        /\ AllDelivered(g)
        /\ Cardinality(RejectionCalls(g)) = Len(aggs[g].promises)
        /\ \E i, j \in RejectionCalls(g) : calls[i].arg # calls[j].arg

\* The members of an after call on library instances fulfilled, the last of
\* the array first.
AfterOutOfOrder ==
    \E g \in DOMAIN aggs :
        /\ aggs[g].kind = "after" /\ OnlyAggregate(g) /\ LibraryOnly(g)
        /\ AllDelivered(g)
        /\ RejectionCalls(g) = {}
        /\ \E c, d \in MembersOf(g) :
              /\ members[c].index < members[d].index
              /\ CallOfMember(c) > CallOfMember(d)
              /\ OutcomeOf(c).val # OutcomeOf(d).val
              /\ OutcomeOf(c).val # Undefined
              /\ OutcomeOf(d).val # Undefined

\* C20: after on library instances: while a member has not delivered its
\* outcome, the instance of after is pending, also when closures of other
\* members were already called with rejections.
C20_AfterWaitsForAll ==
    \A g \in DOMAIN aggs :
        (/\ aggs[g].kind = "after"
         /\ LibraryOnly(g)
         /\ OnlyAggregate(g)
         /\ ~AllDelivered(g))
        => state[aggs[g].myself] = "null"

\* A member of an after call on library instances has delivered a rejection,
\* another member is settled but has not yet delivered: the instance of after
\* is pending.
C20_Witness ==
    \E g \in DOMAIN aggs :
        /\ aggs[g].kind = "after"
        /\ LibraryOnly(g)
        /\ OnlyAggregate(g)
        /\ RejectionCalls(g) # {}
        /\ \E c \in MembersOf(g) :
              ~Delivered(c) /\ state[members[c].other.n] # "null"
        /\ state[aggs[g].myself] = "null"

\* The elements of the array of the g-th call, all library instances: one is
\* pending, none is rejected.
SomePendingNoneRejected(g) ==
    /\ \E i \in DOMAIN aggs[g].promises : state[aggs[g].promises[i].n] = "null"
    /\ \A i \in DOMAIN aggs[g].promises : state[aggs[g].promises[i].n] # "false"

\* C21: when on an array of library instances: while a member is pending and
\* no member is rejected, the instance of when is pending, whether the other
\* members fulfilled before the call or after it, in any order.
C21_WhenNeverEarly ==
    \A g \in DOMAIN aggs :
        (/\ aggs[g].kind = "when"
         /\ LibraryOnly(g)
         /\ OnlyAggregate(g)
         /\ SomePendingNoneRejected(g))
        => state[aggs[g].myself] = "null"

\* The closure of a member that fulfilled was called, a member that comes
\* before it in the array is pending: the instance of when is pending.
C21_Witness ==
    \E g \in DOMAIN aggs :
        /\ aggs[g].kind = "when"
        /\ LibraryOnly(g)
        /\ OnlyAggregate(g)
        /\ SomePendingNoneRejected(g)
        /\ \E c, d \in MembersOf(g) :
              /\ members[c].index < members[d].index
              /\ state[members[c].other.n] = "null"
              /\ Delivered(d)
        /\ state[aggs[g].myself] = "null"

(* ----------------------- properties of registration --------------------- *)
\* The thenCalls of heap s, by instance and position, whose nextPromise is q.
ThenCallsTo(s, q) ==
    {pk \in Created \X (1 .. MaxThenCalls + 1) :
        /\ pk[2] \in DOMAIN s.thenCallArray[pk[1]]
        /\ s.thenCallArray[pk[1]][pk[2]].nextPromise = q}

\* promise.then(onSuccess, onError), called in the present state, returns an
\* instance that did not exist, and appends to promise.thenCallArray one
\* thenCall, the only one with that instance as nextPromise.
ThenReturnsNew(promise, onSuccess, onError) ==
    LET r == then(Heap, promise, onSuccess, onError)
    IN  ~r.overflow =>
            /\ r.ret # promise
            /\ r.ret \notin Created
            /\ r.ret \in 1 .. r.created
            /\ Len(r.thenCallArray[promise]) = Len(thenCallArray[promise]) + 1
            /\ ThenCallsTo(r, r.ret) = {<<promise, Len(r.thenCallArray[promise])>>}
            /\ \A q \in Created \ {promise} : r.thenCallArray[q] = thenCallArray[q]
            /\ SubSeq(r.thenCallArray[promise], 1, Len(thenCallArray[promise]))
                  = thenCallArray[promise]

\* C22: every call of then returns a new instance, distinct from the one it
\* was called on and from every instance that existed, and that instance is
\* the nextPromise of exactly the one thenCall the call appended.
C22_ThenReturnsNew ==
    \A promise \in Created, fg \in ChainCallbacks :
        ThenReturnsNew(promise, fg[1], fg[2])

\* then was called twice on one instance, the second time after the instance
\* was settled: the two thenCalls have two nextPromises, both other than the
\* instance.
C22_Witness ==
    \E p \in Created :
        /\ Len(thenCallArray[p]) = 2
        /\ state[p] # "null"
        /\ dispatched[thenCallArray[p][2].id] # 0
        /\ thenCallArray[p][1].nextPromise # thenCallArray[p][2].nextPromise
        /\ thenCallArray[p][1].nextPromise \notin {0, p}
        /\ thenCallArray[p][2].nextPromise \notin {0, p}

\* FidPromise.prototype.always, error and success (lines 354-356, 364-366,
\* 396-398): s.ret is what they return. A missing or null argument of
\* addCallbacks is NotAFunction, a missing nextPromise 0.
always(s, promise, fn) == addCallbacks(s, promise, fn, fn, 0)

error(s, promise, fn) == addCallbacks(s, promise, NotAFunction, fn, 0)

success(s, promise, fn) == addCallbacks(s, promise, fn, NotAFunction, 0)

\* C23: always, error and success of src/lib/fid-promise.js each return a new
\* instance, distinct from the one they were called on.
C23_SugarReturnsNew ==
    \A promise \in Created :
        /\ LET r == always(Heap, promise, Returns(Plain(1)))
           IN  ~r.overflow => r.ret # promise /\ r.ret \notin Created
        /\ LET r == error(Heap, promise, Returns(Plain(1)))
           IN  ~r.overflow => r.ret # promise /\ r.ret \notin Created
        /\ LET r == success(Heap, promise, Returns(Plain(1)))
           IN  ~r.overflow => r.ret # promise /\ r.ret \notin Created

\* What always, error and success do: they return the instance they were
\* called on and construct none.
SugarReturnsReceiver ==
    \A promise \in Created :
        /\ LET r == always(Heap, promise, Returns(Plain(1)))
           IN  ~r.overflow => r.ret = promise /\ r.created = created
        /\ LET r == error(Heap, promise, Returns(Plain(1)))
           IN  ~r.overflow => r.ret = promise /\ r.created = created
        /\ LET r == success(Heap, promise, Returns(Plain(1)))
           IN  ~r.overflow => r.ret = promise /\ r.created = created

(* -------------------- properties of src/fid-promise.js ------------------ *)
\* Heap r is the present heap after one thenCall with callbacks onSuccess and
\* onError and no chainedPromise was pushed onto the thenCallArray of this,
\* and r.ret is this: no instance was constructed, no other thenCallArray
\* changed.
RegisteredOnReceiver(r, this, onSuccess, onError) ==
    ~r.overflow =>
        /\ r.ret = this
        /\ r.created = created
        /\ Len(r.thenCallArray[this]) = Len(thenCallArray[this]) + 1
        /\ SubSeq(r.thenCallArray[this], 1, Len(thenCallArray[this]))
              = thenCallArray[this]
        /\ LET thenCall == r.thenCallArray[this][Len(r.thenCallArray[this])]
           IN  /\ thenCall.onSuccess = onSuccess
               /\ thenCall.onError = onError
               /\ thenCall.chainedPromise = 0
        /\ \A q \in Created \ {this} : r.thenCallArray[q] = thenCallArray[q]

\* The callbacks client code hands to always, error and success.
SugarCallbacks == {Returns(Plain(1)), Throws(Exc(1))}

\* C24: in src/fid-promise.js always(fn), error(fn) and success(fn) return
\* the instance they were called on and register on it the one thenCall
\* (fn, fn), (null, fn), (fn, nothing), without chainedPromise.
C24_SugarRegistersOnReceiver ==
    \A this \in Created, fn \in SugarCallbacks :
        /\ RegisteredOnReceiver(PromiseAlways(Heap, this, fn), this, fn, fn)
        /\ RegisteredOnReceiver(PromiseError(Heap, this, fn), this, NotAFunction, fn)
        /\ RegisteredOnReceiver(PromiseSuccess(Heap, this, fn), this, fn, NotAFunction)

\* always was called on an instance after then, and the instance is settled:
\* its second thenCall has the function twice and no chainedPromise, and the
\* function was called.
C24_Witness ==
    \E p \in Created :
        /\ Len(thenCallArray[p]) = 2
        /\ state[p] # "null"
        /\ thenCallArray[p][1].chainedPromise # 0
        /\ thenCallArray[p][2].chainedPromise = 0
        /\ thenCallArray[p][2].onSuccess = Returns(Plain(1))
        /\ thenCallArray[p][2].onError = Returns(Plain(1))
        /\ \E i \in DOMAIN calls : calls[i].id = thenCallArray[p][2].id

(* ------------------------- properties of dispatch ----------------------- *)
\* Heap r is the present heap after a resolve or reject call on promise: the
\* nextPromise of every thenCall of promise is in the state it was in.
DownstreamUntouched(r, promise) ==
    \A k \in DOMAIN thenCallArray[promise] :
        LET nextPromise == thenCallArray[promise][k].nextPromise
        IN  nextPromise # 0 => r.state[nextPromise] = state[nextPromise]

\* The same for the thenCalls whose callback for the outcome wasSuccess is a
\* function.
DownstreamWithCallbackUntouched(r, promise, wasSuccess) ==
    \A k \in DOMAIN thenCallArray[promise] :
        LET thenCall == thenCallArray[promise][k]
        IN  (/\ thenCall.nextPromise # 0
             /\ Selected(thenCall, IF wasSuccess THEN "true" ELSE "false")
                   # NotAFunction)
            => r.state[thenCall.nextPromise] = state[thenCall.nextPromise]

\* C25: no dispatch of a thenCall, a pass-through included, happens inside
\* the resolve or reject call that settles the instance or inside the then
\* call that registers the thenCall: such a call leaves the state of every
\* nextPromise as it was, and the instance then returns is pending.
C25_DispatchInOwnTask ==
    \A promise \in Created :
        /\ DownstreamUntouched(complete(Heap, promise, TRUE, Plain(1)), promise)
        /\ DownstreamUntouched(complete(Heap, promise, FALSE, Plain(3)), promise)
        /\ \A onSuccess \in {NotAFunction, Returns(Plain(1))},
              onError \in {NotAFunction, Throws(Exc(1))} :
              LET r == then(Heap, promise, onSuccess, onError)
              IN  ~r.overflow => r.state[r.ret] = "null"

\* C25 for the thenCalls that have a function for the outcome of their
\* instance.
DispatchOfCallbackInOwnTask ==
    \A promise \in Created :
        /\ DownstreamWithCallbackUntouched(
               complete(Heap, promise, TRUE, Plain(1)), promise, TRUE)
        /\ DownstreamWithCallbackUntouched(
               complete(Heap, promise, FALSE, Plain(3)), promise, FALSE)
        /\ \A onSuccess \in {NotAFunction, Returns(Plain(1))},
              onError \in {NotAFunction, Throws(Exc(1))} :
              LET r == then(Heap, promise, onSuccess, onError)
                  fn == IF state[promise] = "true" THEN onSuccess ELSE onError
              IN  (~r.overflow /\ (state[promise] = "null" \/ fn # NotAFunction))
                     => r.state[r.ret] = "null"

\* What callNext does without a function: then, called on a settled instance
\* without a callback for its outcome, returns an instance that is settled
\* like it.
PassThroughInsideThen ==
    \A promise \in Created :
        LET r == then(Heap, promise, NotAFunction, NotAFunction)
        IN  (~r.overflow /\ state[promise] # "null")
               => /\ r.state[r.ret] = state[promise]
                  /\ r.data[r.ret] = data[promise]

\* A thenCall with number id was registered; the instance it is registered on.
Registered(id) ==
    \E p \in Created : \E k \in DOMAIN thenCallArray[p] : thenCallArray[p][k].id = id

ParentOf(id) ==
    CHOOSE p \in Created :
        \E k \in DOMAIN thenCallArray[p] : thenCallArray[p][k].id = id

\* thenCall id was registered by always: one function as both callbacks, no
\* nextPromise.
ViaAlways(id) ==
    /\ Registered(id)
    /\ ThenCallById(id).nextPromise = 0
    /\ ThenCallById(id).onSuccess = ThenCallById(id).onError
    /\ ThenCallById(id).onSuccess # NotAFunction

\* The callback of always was called at most once, and not while its instance
\* is pending.
AlwaysNotEarlyNotTwice ==
    \A id \in 1 .. MaxThenCalls :
        ViaAlways(id) =>
            /\ CallCount(id) <= 1
            /\ state[ParentOf(id)] = "null" => CallCount(id) = 0

\* C26: a callback registered with always is not called while its instance
\* is pending and never twice, and once the instance is settled, fulfilled or
\* rejected, it is eventually called.
C26_AlwaysOnce ==
    /\ []AlwaysNotEarlyNotTwice
    /\ \A id \in 1 .. MaxThenCalls :
          (ViaAlways(id) /\ state[ParentOf(id)] # "null") ~> (CallCount(id) = 1)

\* The callback of always was called for a rejected instance, with the
\* reason, and the instance has a second thenCall.
C26_Witness ==
    \E id \in 1 .. MaxThenCalls :
        /\ ViaAlways(id)
        /\ state[ParentOf(id)] = "false"
        /\ Len(thenCallArray[ParentOf(id)]) = 2
        /\ CallCount(id) = 1
        /\ \E i \in DOMAIN calls :
              /\ calls[i].id = id
              /\ calls[i].which = "onError"
              /\ calls[i].arg = Plain(3)

\* thenCall id has a function for the state of its instance, which is settled.
Due(id) ==
    /\ Registered(id)
    /\ state[ParentOf(id)] # "null"
    /\ Selected(ThenCallById(id), state[ParentOf(id)]) # NotAFunction

\* C29: with a fair task queue, the callback that a thenCall has for the
\* outcome of its instance is eventually called once the instance is
\* settled, also when the callback of an earlier thenCall of the instance
\* throws or returns a thenable that never settles.
C29_SiblingsRun ==
    \A id \in 1 .. MaxThenCalls : Due(id) ~> (CallCount(id) >= 1)

\* The callback of the second thenCall of an instance was called after that
\* of the first, which threw or returned a thenable that never calls back.
C29_Witness ==
    \E p \in Created :
        /\ Len(thenCallArray[p]) >= 2
        /\ state[p] # "null"
        /\ Selected(thenCallArray[p][1], state[p]) \in
              {Throws(Exc(1)), Returns(NeverSettling)}
        /\ CallCount(thenCallArray[p][1].id) = 1
        /\ CallCount(thenCallArray[p][2].id) = 1
        /\ thenCallArray[p][1].nextPromise # 0
        /\ Selected(thenCallArray[p][1], state[p]) = Returns(NeverSettling)
              => state[thenCallArray[p][1].nextPromise] = "null"

(* ------------------------ properties of exceptions ---------------------- *)
\* The payloads of C27 for a resolve or reject call on promise: the instance
\* itself, a thenable whose then getter throws, thenables whose then throws
\* before or after it called back, and a value without then.
FailingPayloads(promise) ==
    {PromiseRef(promise), ThrowingThen(1), Foreign(5), Foreign(7), Plain(1)}

\* Heap r, the end of a call or of a timer function, has no exception in
\* flight.
Returned(r) == ~r.overflow => r.exc = NoExc

\* C27: resolve, reject and then throw nothing to their caller, whatever the
\* payload, and what a callback throws does not leave the timer function that
\* called it.
C27_NothingEscapes ==
    /\ uncaught = NoExc
    /\ \A promise \in Created :
          /\ \A value \in FailingPayloads(promise) :
                /\ Returned(complete(Heap, promise, TRUE, value))
                /\ Returned(complete(Heap, promise, FALSE, value))
          /\ \A fg \in ChainCallbacks :
                Returned(then(Heap, promise, fg[1], fg[2]))
    /\ timers # << >> =>
          Returned(timerBody([Heap EXCEPT !.timers = Tail(@)], Head(timers)))

\* A callback threw: its nextPromise is rejected with what it threw, and
\* nothing left the timer function.
C27_Witness ==
    /\ uncaught = NoExc
    /\ \E i \in DOMAIN calls :
          LET tc == ThenCallById(calls[i].id)
          IN  /\ Selected(tc, state[calls[i].parent]) = Throws(Exc(1))
              /\ tc.nextPromise # 0
              /\ state[tc.nextPromise] = "false"
              /\ data[tc.nextPromise] = Exc(1)

(* ---------------------- properties of debug messages -------------------- *)
\* The debug values of a run with debugging: FidPromise.debug is true and no
\* instance has an id yet; FidPromise.debug is a function and every instance
\* has an id; the debug property of one instance alone is a function.
DebugSettings ==
    { [debug |-> Promises, sink |-> FALSE, ids |-> {}],
      [debug |-> Promises, sink |-> TRUE, ids |-> Created],
      [debug |-> {1}, sink |-> TRUE, ids |-> {}] }

\* The present heap with debugging as in d.
WithDebug(d) ==
    [Heap EXCEPT !.debug = d.debug, !.sink = d.sink, !.ids = d.ids]

\* Heap r without the ids and the messages.
WithoutDebug(r) ==
    [r EXCEPT !.debug = {}, !.sink = FALSE, !.ids = {}, !.log = << >>]

\* The payloads of resolve and reject calls on promise, and the arrays passed
\* to when and after, for the comparison of C28.
DebugPayloads(promise) ==
    {Plain(1), PromiseRef(promise), PromiseRef(1), ThrowingThen(1),
     Foreign(2), Foreign(5)}

DebugCollections(promise) ==
    { << >>, <<PromiseRef(promise)>>, <<Foreign(9), PromiseRef(promise)>> }

\* Every operation, applied to the present heap with debugging as in d, ends
\* in the heap it ends in without debugging: the same instances, states,
\* data, thenCalls, timers in the same order, calls of callbacks in the same
\* order, result and exception.
SameWithDebug(d) ==
    /\ \A promise \in Created :
          /\ \A value \in DebugPayloads(promise) :
                /\ WithoutDebug(complete(WithDebug(d), promise, TRUE, value))
                      = complete(Heap, promise, TRUE, value)
                /\ WithoutDebug(complete(WithDebug(d), promise, FALSE, value))
                      = complete(Heap, promise, FALSE, value)
          /\ \A fg \in ChainCallbacks :
                WithoutDebug(then(WithDebug(d), promise, fg[1], fg[2]))
                   = then(Heap, promise, fg[1], fg[2])
          /\ WithoutDebug(always(WithDebug(d), promise, Returns(Plain(1))))
                = always(Heap, promise, Returns(Plain(1)))
          /\ \A c \in DebugCollections(promise) :
                /\ WithoutDebug(when(WithDebug(d), created, c)) = when(Heap, created, c)
                /\ WithoutDebug(after(WithDebug(d), created, c)) = after(Heap, created, c)
    /\ timers # << >> =>
          WithoutDebug(timerBody([WithDebug(d) EXCEPT !.timers = Tail(@)], Head(timers)))
             = timerBody([Heap EXCEPT !.timers = Tail(@)], Head(timers))
    /\ \A a \in DOMAIN attached :
          attached[a].later # << >> =>
             WithoutDebug(forward([WithDebug(d) EXCEPT !.attached[a].later = Tail(@)],
                                  a, Head(attached[a].later).cb,
                                  Head(attached[a].later).val))
                = forward([Heap EXCEPT !.attached[a].later = Tail(@)],
                          a, Head(attached[a].later).cb, Head(attached[a].later).val)

\* C28: debugging only observes: with FidPromise.debug or the debug property
\* of an instance set to true or to a function that does not throw, every
\* operation leaves the instances, their states and data, the timers and the
\* calls of callbacks as it leaves them without debugging.
C28_DebugObserves ==
    \A d \in DebugSettings : SameWithDebug(d)

\* With FidPromise.debug true, resolve on a pending instance that has a
\* thenCall writes messages, gives the instance an id, settles it and sets
\* the timer.
C28_Witness ==
    \E promise \in Created :
        /\ state[promise] = "null"
        /\ thenCallArray[promise] # << >>
        /\ LET r == complete(WithDebug([debug |-> Promises, sink |-> FALSE,
                                        ids |-> {}]),
                             promise, TRUE, Plain(1))
           IN  /\ ~r.overflow
               /\ Len(r.log) >= 2
               /\ promise \in r.ids
               /\ r.state[promise] = "true"
               /\ Len(r.timers) > Len(timers)

\* C30: waitingFor counts every thenable member before the outcome of any
\* member is processed: the instance of when is not fulfilled, and the
\* instance of after not settled, before every member has delivered its
\* outcome, also with a thenable whose then calls the first closure before
\* it returns.
C30_CountedBeforeProcessed ==
    \A g \in DOMAIN aggs :
        OnlyAggregate(g) =>
            /\ (aggs[g].kind = "when" /\ state[aggs[g].myself] = "true")
                  => AllDelivered(g)
            /\ (aggs[g].kind = "after" /\ state[aggs[g].myself] # "null")
                  => AllDelivered(g)

\* C30 for arrays without a thenable that calls a closure before its then
\* returns.
CountedWithoutEarlyCallers ==
    \A g \in DOMAIN aggs :
        (/\ OnlyAggregate(g)
         /\ \A c \in MembersOf(g) :
               members[c].other.k = "foreign"
                   => ForeignThen(members[c].other.n).sync = << >>)
        => /\ (aggs[g].kind = "when" /\ state[aggs[g].myself] = "true")
                 => AllDelivered(g)
           /\ (aggs[g].kind = "after" /\ state[aggs[g].myself] # "null")
                 => AllDelivered(g)

\* What the forEach function does: it counts a member just before it calls
\* the then of that member, so that a closure called inside that then finds
\* waitingFor 1 and settles the instance while a later member is pending.
SettledWhileMemberPending ==
    \E g \in DOMAIN aggs :
        /\ OnlyAggregate(g)
        /\ state[aggs[g].myself] = "true"
        /\ \E c \in MembersOf(g) :
              /\ members[c].other.k = "promise"
              /\ state[members[c].other.n] = "null"

(* ---------------- properties of when of src/fid-promise.js -------------- *)
\* The g-th call is the only call of when on its instance.
OnlyWhenCall(g) ==
    \A h \in DOMAIN aggs : aggs[h].myself = aggs[g].myself => h = g

\* The elements of the g-th call are instances.
InstancesOnly(g) ==
    \A i \in DOMAIN aggs[g].args : aggs[g].args[i].k = "promise"

\* when of src/fid-promise.js on instances, the only when call on its
\* instance: while an element is pending and none is rejected, the instance is
\* pending.
PromiseWhenNeverEarly ==
    \A g \in DOMAIN aggs :
        (/\ aggs[g].kind = "Promise.when"
         /\ OnlyWhenCall(g)
         /\ InstancesOnly(g)
         /\ \E i \in DOMAIN aggs[g].args : state[aggs[g].args[i].n] = "null"
         /\ \A i \in DOMAIN aggs[g].args : state[aggs[g].args[i].n] # "false")
        => state[aggs[g].myself] = "null"

\* The closure of one element was called, the other element is pending.
PromiseWhenOneLeft ==
    \E g \in DOMAIN aggs :
        /\ aggs[g].kind = "Promise.when"
        /\ OnlyWhenCall(g)
        /\ InstancesOnly(g)
        /\ Len(aggs[g].args) = 2
        /\ waitingFor[aggs[g].myself] = 1
        /\ \E i \in DOMAIN aggs[g].args : state[aggs[g].args[i].n] = "null"
        /\ \A i \in DOMAIN aggs[g].args : state[aggs[g].args[i].n] # "false"
        /\ state[aggs[g].myself] = "null"

\* Every element of the only call fulfilled and every timer has run: the
\* instance is fulfilled with no argument.
PromiseWhenAllFulfilled ==
    \A g \in DOMAIN aggs :
        (/\ aggs[g].kind = "Promise.when"
         /\ OnlyWhenCall(g)
         /\ InstancesOnly(g)
         /\ timers = << >>
         /\ \A i \in DOMAIN aggs[g].args : state[aggs[g].args[i].n] = "true")
        => /\ state[aggs[g].myself] = "true"
           /\ data[aggs[g].myself] = << >>

(* ----------------------- properties of response time -------------------- *)
\* The heap after the first n timers of the queue of s have fired, oldest
\* first: the timers that were set before those that fire set theirs.
RECURSIVE RunTimers(_, _)
RunTimers(s, n) ==
    IF n = 0 \/ s.overflow \/ s.timers = << >>
    THEN s
    ELSE RunTimers(timerBody([s EXCEPT !.timers = Tail(@)], Head(s.timers)),
                   n - 1)

\* The heap when every timer that is set in s has fired.
AfterTimersOf(s) == RunTimers(s, Len(s.timers))

\* The g-th call is a when call on instances of the library, the only call on
\* its instance, and p is an element that is pending.
WhenOverInstances(g, p) ==
    /\ aggs[g].kind = "when"
    /\ LibraryOnly(g)
    /\ OnlyAggregate(g)
    /\ \E i \in DOMAIN aggs[g].promises : aggs[g].promises[i].n = p
    /\ state[p] = "null"

\* Every element of the g-th call but p is fulfilled.
LastOutstanding(g, p) ==
    \A i \in DOMAIN aggs[g].promises :
        aggs[g].promises[i].n # p => state[aggs[g].promises[i].n] = "true"

\* The values and reasons of the settle calls: no thenables.
SettleValues == {Plain(1), Undefined}
SettleReasons == {Plain(3), Undefined}

\* The instance of the g-th call is pending when the resolve call that
\* fulfils the last pending element p returns, and fulfilled when the timers
\* that are set at that moment have fired.
FulfilledAfterOneHop(g, p, v) ==
    /\ complete(Heap, p, TRUE, v).state[aggs[g].myself] = "null"
    /\ AfterTimersOf(complete(Heap, p, TRUE, v)).state[aggs[g].myself] = "true"

\* The instance of the g-th call is pending when the reject call on the
\* pending element p returns, and rejected when the timers that are set at
\* that moment have fired.
RejectedAfterOneHop(g, p, v) ==
    /\ complete(Heap, p, FALSE, v).state[aggs[g].myself] = "null"
    /\ AfterTimersOf(complete(Heap, p, FALSE, v)).state[aggs[g].myself] = "false"

\* C31: when on library instances: the resolve call that fulfils the last
\* pending member, or a reject call on a pending member, leaves the instance
\* of when pending, and the instance is fulfilled, or rejected, once the
\* timers that are set when the call returns have fired, before any timer
\* that is set later.
C31_SettledAfterOneHop ==
    \A g \in DOMAIN aggs : \A p \in Created :
        (WhenOverInstances(g, p) /\ state[aggs[g].myself] = "null") =>
            /\ LastOutstanding(g, p) =>
                  \A v \in SettleValues : FulfilledAfterOneHop(g, p, v)
            /\ \A v \in SettleReasons : RejectedAfterOneHop(g, p, v)

\* A when call on two instances: the closure of the first was called by a
\* timer, the second is pending, and the resolve call on it fulfils the
\* instance of when one timer later with the two values.
C31_Witness ==
    \E g \in DOMAIN aggs : \E p \in Created :
        /\ WhenOverInstances(g, p)
        /\ Len(aggs[g].promises) = 2
        /\ aggs[g].waitingFor = 1
        /\ LastOutstanding(g, p)
        /\ FulfilledAfterOneHop(g, p, Plain(1))
        /\ Len(complete(Heap, p, TRUE, Plain(1)).timers) = 1
        /\ Len(arrays[aggs[g].successResults]) = 1
        /\ RejectedAfterOneHop(g, p, Plain(3))

\* The same for src/fid-promise.js: the heap after the first n timers of s
\* have fired.
RECURSIVE PromiseRunTimers(_, _)
PromiseRunTimers(s, n) ==
    IF n = 0 \/ s.overflow \/ s.timers = << >>
    THEN s
    ELSE PromiseRunTimers(
             PromiseTimerBody([s EXCEPT !.timers = Tail(@)], Head(s.timers)),
             n - 1)

\* when of src/fid-promise.js on instances, the only when call on its
\* instance: the resolve call that fulfils the last pending element, or a
\* reject call on a pending element, leaves the instance pending, and it is
\* fulfilled, or rejected, once the timers set when the call returns have
\* fired.
PromiseWhenSettledAfterOneHop ==
    \A g \in DOMAIN aggs : \A i \in DOMAIN aggs[g].args :
        (/\ aggs[g].kind = "Promise.when"
         /\ OnlyWhenCall(g)
         /\ InstancesOnly(g)
         /\ state[aggs[g].args[i].n] = "null"
         /\ state[aggs[g].myself] = "null") =>
            /\ (\A j \in DOMAIN aggs[g].args :
                    aggs[g].args[j] # aggs[g].args[i]
                        => state[aggs[g].args[j].n] = "true") =>
                  \A a \in {<< >>, <<Plain(1)>>} :
                     /\ PromiseResolve(Heap, aggs[g].args[i].n, a)
                            .state[aggs[g].myself] = "null"
                     /\ PromiseRunTimers(
                            PromiseResolve(Heap, aggs[g].args[i].n, a),
                            Len(PromiseResolve(Heap, aggs[g].args[i].n, a).timers))
                            .state[aggs[g].myself] = "true"
            /\ \A a \in {<< >>, <<Plain(3)>>} :
                  /\ PromiseReject(Heap, aggs[g].args[i].n, a)
                         .state[aggs[g].myself] = "null"
                  /\ PromiseRunTimers(
                         PromiseReject(Heap, aggs[g].args[i].n, a),
                         Len(PromiseReject(Heap, aggs[g].args[i].n, a).timers))
                         .state[aggs[g].myself] = "false"

(* ------------- properties of the return of when, src/fid-promise.js ----- *)
\* The list of elements of a when call with the list arguments (lines
\* 386-392).
ElementsOf(arguments) ==
    IF Len(arguments) > 0 /\ arguments[1].k = "arrayOf"
    THEN arguments[1].elems
    ELSE arguments

\* No when call was made on instance p, which is pending.
NoWhenYet(p) ==
    /\ state[p] = "null"
    /\ \A g \in DOMAIN aggs : aggs[g].myself # p

\* C32: when on a pending instance that had no when call: with no argument or
\* an empty array the instance is fulfilled when the call returns; with an
\* element that is an instance, pending, fulfilled or rejected, it is pending
\* when the call returns.
C32_SynchronousOnlyWhenEmpty ==
    NoWhenYet(1) =>
        \A a \in LegacyArguments :
            /\ ElementsOf(a) = << >> =>
                  PromiseWhen(Heap, 1, a).state[1] = "true"
            /\ (\E i \in DOMAIN ElementsOf(a) : ElementsOf(a)[i].k = "promise") =>
                  PromiseWhen(Heap, 1, a).state[1] = "null"

\* A sparse array without any element is an empty collection to forEach: the
\* instance is fulfilled when the call returns, with waitingFor 0.
PromiseWhenSkipsMissing ==
    NoWhenYet(1) =>
        /\ PromiseWhen(Heap, 1, << ArrayOf(<< Hole >>) >>).state[1] = "true"
        /\ PromiseWhen(Heap, 1, << ArrayOf(<< Hole >>) >>).waitingFor[1]
               = waitingFor[1]

\* One instance is rejected and one is fulfilled before the when call on the
\* array of both: when returns with timers set and its instance pending; the
\* call with no argument and the call with the empty array return with the
\* instance fulfilled.
C32_Witness ==
    /\ NoWhenYet(1)
    /\ state[2] = "false"
    /\ state[3] = "true"
    /\ PromiseWhen(Heap, 1, << ArrayOf(<< PromiseRef(2), PromiseRef(3) >>) >>)
           .state[1] = "null"
    /\ Len(PromiseWhen(Heap, 1, << ArrayOf(<< PromiseRef(2), PromiseRef(3) >>) >>)
               .timers) = 2
    /\ PromiseWhen(Heap, 1, << >>).state[1] = "true"
    /\ PromiseWhen(Heap, 1, << ArrayOf(<< >>) >>).state[1] = "true"

(* ---------- properties of elements without then, src/fid-promise.js ----- *)
\* The elements of the g-th call that are thenables, and the number of the
\* elements the array has that are not.
ThenableElements(g) ==
    {i \in DOMAIN aggs[g].args : isThenable(Heap, aggs[g].args[i])}

OtherElements(g) ==
    Cardinality({i \in DOMAIN aggs[g].args :
                    /\ aggs[g].args[i] # Hole
                    /\ ~isThenable(Heap, aggs[g].args[i])})

\* C33: when of src/fid-promise.js, the only when call on its instance:
\* elements that are no thenables are not counted, so the instance is
\* fulfilled when the call returns if no element is a thenable, and is
\* fulfilled once every thenable element is fulfilled and the timers have
\* fired.
C33_NonThenablesIgnored ==
    \A g \in DOMAIN aggs :
        (aggs[g].kind = "Promise.when" /\ OnlyWhenCall(g)) =>
            /\ ThenableElements(g) = {} => state[aggs[g].myself] = "true"
            /\ (/\ timers = << >>
                /\ \A i \in ThenableElements(g) :
                       state[aggs[g].args[i].n] = "true")
               => state[aggs[g].myself] = "true"

\* What the code does: every element is counted in waitingFor, an element
\* that is no thenable is never counted down, and the instance of a call with
\* such an element is never fulfilled.
NonThenablesCounted ==
    \A g \in DOMAIN aggs :
        (aggs[g].kind = "Promise.when" /\ OnlyWhenCall(g)) =>
            /\ waitingFor[aggs[g].myself] >= OtherElements(g)
            /\ OtherElements(g) > 0 => state[aggs[g].myself] # "true"

\* The call on a value and an instance: the instance is fulfilled, its timer
\* has fired, and the instance of when is pending with waitingFor 1.
MixedFulfilledStillPending ==
    \E g \in DOMAIN aggs :
        /\ aggs[g].kind = "Promise.when"
        /\ OnlyWhenCall(g)
        /\ aggs[g].args = << Plain(1), PromiseRef(2) >>
        /\ state[2] = "true"
        /\ timers = << >>
        /\ waitingFor[aggs[g].myself] = 1
        /\ state[aggs[g].myself] = "null"

(* ---------------------- properties of fulfilled values ------------------ *)
\* The value is no instance, no foreign thenable and no object whose then
\* getter throws: reading its then gives no function.
NoThenFound(value) == value.k \notin {"promise", "foreign", "throwingThen"}

\* C34: the data of a fulfilled instance is a value on which getThen found no
\* then function: no resolve call, returned value or passed-on outcome leaves
\* a thenable as the data of a fulfilled instance.
C34_FulfilledValueNotThenable ==
    \A p \in Created : state[p] = "true" => NoThenFound(data[p])

\* An instance that was resolved with a thenable, a foreign one or an
\* instance, is fulfilled with the value the thenable passed on.
C34_Witness ==
    \E a \in DOMAIN attached :
        /\ state[attached[a].promise] = "true"
        /\ ~NoThenFound(attached[a].other)
        /\ NoThenFound(data[attached[a].promise])
        /\ data[attached[a].promise] # EmptyArray

(* -------------- properties of the instance then returned ---------------- *)
\* What a call of the callback fn gives the timer function: the value it
\* returned or threw, undefined for a closure of the library.
ResultOf(fn) == IF fn.act \in {"return", "throw"} THEN fn.val ELSE Undefined

\* nextPromise next has the outcome that callback fn led to: the value fn
\* returned, the value it threw, or, for a thenable it returned or threw, what
\* the thenable passed on through the attachTo call that attached next to it.
SettledFromCallback(next, fn) ==
    IF NoThenFound(ResultOf(fn))
    THEN /\ state[next] = (IF fn.act = "throw" THEN "false" ELSE "true")
         /\ data[next] = ResultOf(fn)
    ELSE \E a \in DOMAIN attached :
            /\ attached[a].promise = next
            /\ attached[a].other = ResultOf(fn)
            /\ attached[a].wasCalled
            /\ ResultOf(fn).k = "promise" =>
                  /\ state[next] = state[ResultOf(fn).n]
                  /\ data[next] = data[ResultOf(fn).n]
            /\ ResultOf(fn) = Foreign(1) =>
                  /\ state[next] = "true"
                  /\ data[next] = Plain(1)

\* C35: the nextPromise of a thenCall that has a function for the outcome of
\* its instance is pending while the instance is pending and until a timer
\* has called the function; when it is settled, it is settled from what the
\* function returned or threw, or from the thenable it returned or threw.
C35_NextPromiseWaitsForCallback ==
    \A p \in Created : \A k \in DOMAIN thenCallArray[p] :
        LET thenCall == thenCallArray[p][k]
            next == thenCall.nextPromise
        IN  next # 0 =>
              /\ state[p] = "null" => state[next] = "null"
              /\ (state[p] # "null"
                    /\ Selected(thenCall, state[p]) # NotAFunction) =>
                    /\ CallCount(thenCall.id) = 0 => state[next] = "null"
                    /\ state[next] # "null" =>
                          SettledFromCallback(next, Selected(thenCall, state[p]))

\* A thenCall of then with two functions on a rejected instance: the timer
\* has called onError, which returned a foreign thenable, and nextPromise is
\* fulfilled with the value the thenable passed on; another thenCall of a
\* settled instance waits for its timer, its nextPromise pending.
C35_Witness ==
    /\ \E p \in Created : \E k \in DOMAIN thenCallArray[p] :
          LET thenCall == thenCallArray[p][k]
          IN  /\ thenCall.nextPromise # 0
              /\ state[p] = "false"
              /\ thenCall.onError = Returns(Foreign(1))
              /\ CallCount(thenCall.id) = 1
              /\ state[thenCall.nextPromise] = "true"
              /\ data[thenCall.nextPromise] = Plain(1)
    /\ \E p \in Created : \E k \in DOMAIN thenCallArray[p] :
          LET thenCall == thenCallArray[p][k]
          IN  /\ thenCall.nextPromise # 0
              /\ state[p] # "null"
              /\ Selected(thenCall, state[p]) # NotAFunction
              /\ CallCount(thenCall.id) = 0
              /\ state[thenCall.nextPromise] = "null"

(* ------------- properties of success, error and always ------------------ *)
\* The step registers a thenCall without nextPromise, as success, error and
\* always do: no instance is constructed, and no instance changes.
SugarRegistrationFrame ==
    (\E p \in Created :
        /\ Len(thenCallArray'[p]) = Len(thenCallArray[p]) + 1
        /\ thenCallArray'[p][Len(thenCallArray'[p])].nextPromise = 0)
    => /\ created' = created
       /\ state' = state
       /\ data' = data
       /\ attached' = attached
       /\ uncaught' = NoExc

\* The step is the timer of a thenCall without nextPromise: its function,
\* which returns or throws a value or a thenable, is called, no instance is
\* constructed or changes, the then of what it returned or threw is not
\* called, no exception leaves the timer function, and the other timers stay.
SugarCallFrame ==
    (/\ timers # << >>
     /\ Head(timers).thenCall.nextPromise = 0
     /\ calls' # calls)
    => /\ calls' = Append(calls, [id |-> Head(timers).thenCall.id,
                                  which |-> Head(timers).which,
                                  parent |-> Head(timers).parentPromise,
                                  arg |-> data[Head(timers).parentPromise]])
       /\ created' = created
       /\ state' = state
       /\ data' = data
       /\ thenCallArray' = thenCallArray
       /\ attached' = attached
       /\ uncaught' = NoExc
       /\ timers' = Tail(timers)

\* C36: a function registered through success, error or always has no
\* nextPromise: the registration constructs no instance, and what the
\* function returns or throws changes the state and data of no instance, the
\* instance it was registered on included; what it throws is caught and not
\* thrown on.
C36_SugarCallbackChangesNothing ==
    [][SugarRegistrationFrame /\ SugarCallFrame]_vars

\* Of two functions registered without nextPromise on the instance, one threw
\* a foreign thenable and one returned the instance itself: both were called,
\* the instance is still the only one, with the value it was resolved with,
\* attached to nothing, and no exception was thrown on.
C36_Witness ==
    /\ Len(thenCallArray[1]) = 2
    /\ thenCallArray[1][1].nextPromise = 0
    /\ thenCallArray[1][2].nextPromise = 0
    /\ thenCallArray[1][1].onSuccess = Throws(Foreign(2))
    /\ thenCallArray[1][2].onSuccess = Returns(PromiseRef(1))
    /\ CallCount(thenCallArray[1][1].id) = 1
    /\ CallCount(thenCallArray[1][2].id) = 1
    /\ created = 1
    /\ state[1] = "true"
    /\ data[1] = Plain(1)
    /\ attached = << >>
    /\ uncaught = NoExc

(* ----------------------- properties of waitingFor ----------------------- *)
\* The forEach iterations of the g-th call whose closures no timer has called.
Outstanding(g) == {c \in MembersOf(g) : CallOfMember(c) = 0}

\* C37: when and after on library instances: waitingFor is never negative and
\* is the number of members, each registered by its forEach iteration, whose
\* closure no timer has called yet; it is 0 exactly when the closure of every
\* member was called.
C37_WaitingForCountsOutstanding ==
    \A g \in DOMAIN aggs :
        LibraryOnly(g) =>
            /\ aggs[g].waitingFor >= 0
            /\ Cardinality(MembersOf(g)) = Len(aggs[g].promises)
            /\ aggs[g].waitingFor = Cardinality(Outstanding(g))
            /\ aggs[g].waitingFor = 0 <=>
                  \A c \in MembersOf(g) : CallOfMember(c) # 0

\* An after call on two instances: a timer has called the second closure of
\* one member, the closure of the other was not called, waitingFor is 1.
C37_Witness ==
    \E g \in DOMAIN aggs :
        /\ aggs[g].kind = "after"
        /\ LibraryOnly(g)
        /\ Len(aggs[g].promises) = 2
        /\ aggs[g].waitingFor = 1
        /\ Cardinality(Outstanding(g)) = 1
        /\ \E c \in MembersOf(g) :
              /\ CallOfMember(c) # 0
              /\ calls[CallOfMember(c)].which = "onError"

(* --------------------- properties of the read of then ------------------- *)
\* The attachTo call that heap r has and the present heap has not.
NewAttach(r) == r.attached[Len(r.attached)]

\* Heap r is the present heap after a call of complete on the pending
\* instance p with ChangingThen(n): then was read once, and the outcome is
\* that of the function, or the exception, which that read gave. The function
\* of a first read was called with the object, and calls back later (n = 1)
\* or at once with a value (n = 2); a later read throws (n = 1) or gives a
\* function that throws (n = 2).
ReadOnceAndUsed(r, p, n) ==
    /\ r.reads = [reads EXCEPT ![n] = @ + 1]
    /\ r.exc = NoExc
    /\ (reads[n] = 0 \/ n = 2) =>
          /\ Len(r.attached) = Len(attached) + 1
          /\ NewAttach(r).promise = p
          /\ NewAttach(r).other = ChangingThen(n)
    /\ (reads[n] = 0 /\ n = 1) =>
          /\ NewAttach(r).later = ForeignThen(1).later
          /\ ~NewAttach(r).wasCalled
          /\ r.state[p] = "null"
    /\ (reads[n] = 0 /\ n = 2) =>
          /\ NewAttach(r).wasCalled
          /\ r.state[p] = "true"
          /\ r.data[p] = Plain(1)
    /\ (reads[n] > 0 /\ n = 1) =>
          /\ r.attached = attached
          /\ r.state[p] = "false"
          /\ r.data[p] = GetterThrows(1)
    /\ (reads[n] > 0 /\ n = 2) =>
          /\ NewAttach(r).wasCalled
          /\ r.state[p] = "false"
          /\ r.data[p] = ForeignThen(5).throws

\* C38: a resolve or reject call on a pending instance with an object whose
\* then changes reads then once, and calls the function that read gave, with
\* the object, to attach the instance: what a second read would give or throw
\* has no part in the outcome of the call.
C38_ThenReadOnce ==
    \A p \in Created : \A n \in ChangingObjects : \A wasSuccess \in BOOLEAN :
        (state[p] = "null"
            /\ ~complete(Heap, p, wasSuccess, ChangingThen(n)).overflow)
        => ReadOnceAndUsed(complete(Heap, p, wasSuccess, ChangingThen(n)), p, n)

\* An instance was resolved with ChangingThen(1), whose then was read once:
\* it is attached to it and fulfilled with the value the function of that read
\* passed on; and the next resolve call with ChangingThen(1), on a pending
\* instance, reads then again and rejects with what the getter throws.
C38_Witness ==
    /\ reads[1] = 1
    /\ \E a \in DOMAIN attached :
          /\ attached[a].other = ChangingThen(1)
          /\ attached[a].wasCalled
          /\ state[attached[a].promise] = "true"
          /\ data[attached[a].promise] = Plain(1)
    /\ \E p \in Created :
          /\ state[p] = "null"
          /\ complete(Heap, p, TRUE, ChangingThen(1)).reads[1] = 2
          /\ complete(Heap, p, TRUE, ChangingThen(1)).state[p] = "false"

(* ------------------ properties of instances in a cycle ------------------ *)
\* Instance p was resolved with instance q while pending: an attachTo call
\* attached p to q.
AttachedTo(s, p, q) ==
    \E a \in DOMAIN s.attached :
        /\ s.attached[a].promise = p
        /\ s.attached[a].other = PromiseRef(q)

\* Each of the two instances was resolved with the other.
Cycle == AttachedTo(Heap, 1, 2) /\ AttachedTo(Heap, 2, 1)

BothPending == state[1] = "null" /\ state[2] = "null"

\* No instance of heap s has the TypeError of line 173 as data.
NoTypeError(s) == \A p \in 1 .. s.created : s.data[p] # TypeErr

\* Heap r is the present heap, in which both instances are pending, after
\* resolve of p with q: the call threw nothing, p is attached to q, both are
\* pending, no timer is set and no TypeError was made.
ResolvedWithOther(r, p, q) ==
    ~r.overflow =>
        /\ r.exc = NoExc
        /\ AttachedTo(r, p, q)
        /\ r.state[1] = "null"
        /\ r.state[2] = "null"
        /\ r.timers = << >>
        /\ NoTypeError(r)

\* Nothing of the library is left to run: no timer is set, and no closure of
\* an attachTo call was called.
NothingLeftToRun ==
    /\ timers = << >>
    /\ \A a \in DOMAIN attached : ~attached[a].wasCalled /\ attached[a].later = << >>

\* The step is a resolve or reject call on one of the two instances with a
\* value without then: no callback is called, nothing is registered or
\* attached, and the instance has that value as data.
SettledDirectly ==
    /\ calls' = calls
    /\ nThenCalls' = nThenCalls
    /\ attached' = attached
    /\ \E p \in {1, 2} :
          /\ state[p] = "null"
          /\ state'[p] # "null"
          /\ NoThenFound(data'[p])

\* In every state: no call threw and no TypeError was made; resolve of either
\* pending instance with the other attaches it and settles nothing; and while
\* both are pending in the cycle, nothing is left to run.
CycleNeverDetected ==
    /\ uncaught = NoExc
    /\ NoTypeError(Heap)
    /\ BothPending =>
          /\ ResolvedWithOther(complete(Heap, 1, TRUE, PromiseRef(2)), 1, 2)
          /\ ResolvedWithOther(complete(Heap, 2, TRUE, PromiseRef(1)), 2, 1)
    /\ (Cycle /\ BothPending) => NothingLeftToRun

\* C39: two pending instances that are resolved with each other: neither call
\* throws, no instance is rejected with the TypeError, both are pending with
\* nothing left to run, and the only step that ends this is a resolve or
\* reject call on one of them with a value without then.
C39_CycleStaysPending ==
    /\ []CycleNeverDetected
    /\ [][(Cycle /\ BothPending /\ ~BothPending') => SettledDirectly]_vars

\* Each of the two instances was resolved with the other, and both are
\* pending.
C39_Witness == Cycle /\ BothPending /\ Len(attached) = 2

\* After the cycle one instance was resolved with a value: both are fulfilled
\* with it.
CycleSettledDirectly ==
    /\ Cycle
    /\ state[1] = "true" /\ data[1] = Plain(1)
    /\ state[2] = "true" /\ data[2] = Plain(1)
    /\ timers = << >>

=============================================================================
